---- MODULE Spec2Model ----
(***************************************************************************)
(* Model of cache-kit: the multi-index MemoryCache (memory.go), its        *)
(* configuration (config.go) and the helpers it uses, and the RedisCache   *)
(* and HybridCache of redis.go with the Redis server they talk to.         *)
(*                                                                         *)
(* Go strings are modelled as sequences of one-character strings, so that  *)
(* strings.TrimSpace, strings.ToLower and concatenation are computed and   *)
(* not assumed.  A value is a TestUser with the fields ID and Email; its    *)
(* Phone and Name are empty throughout.                                    *)
(*                                                                         *)
(* Spec is the MemoryCache used by one caller, SpecRedis a RedisCache used *)
(* by one caller, SpecPipeline two RedisCache clients of the same keys,    *)
(* SpecHybrid a HybridCache, SpecLock the MemoryCache called by several    *)
(* goroutines under its sync.RWMutex, SpecFair the same under fair         *)
(* scheduling with callbacks that do not call the cache, SpecWatch a       *)
(* RedisCache whose caller polls the version, and SpecRace a HybridCache   *)
(* whose Set is called by several goroutines.                              *)
(***************************************************************************)
EXTENDS Integers, Sequences, FiniteSets, TLC

VARIABLES
    config,     \* MemoryCache.config: which functions of Config[V] are set
    data,       \* MemoryCache.data: primary key -> value
    order,      \* MemoryCache.order: primary keys in insertion order
    indexes,    \* MemoryCache.indexes: index name -> index key -> primary key
    indexFns,   \* MemoryCache.indexFns: index name -> key extraction function
    hash,       \* MemoryCache.hash: cached hash value
    loaded,     \* history: the argument of the last completed Set (empty after construction and Clear)
    last,       \* history: the last call made on the cache and how it ended
    replaced,   \* history: the last call was a Set that found a non-empty dataset
    redisConfig,\* RedisCache.client (set or nil), RedisCache.config.TTL and config.MaxValueBytes
    remote,     \* the Redis server: what it holds under RedisCache.key and versionKey()
    pipes,      \* per client, the commands of its pipeline the server has not applied yet
    rlast,      \* history: the last call made on a RedisCache or HybridCache and how it ended
    hist,       \* history of concurrent clients: calls that returned nil, arguments of the calls in progress, the last SET applied; what a polling caller kept
    mu,         \* MemoryCache.mu, the sync.RWMutex
    goroutines, \* per goroutine, the call on the MemoryCache or HybridCache it is in and how far it got
    committed   \* history: the MemoryCache as the last writer left it when it unlocked

vars == <<config, data, order, indexes, indexFns, hash, loaded, last, replaced,
          redisConfig, remote, pipes, rlast, hist, mu, goroutines, committed>>

\* the MemoryCache with its history
memoryVars == <<config, data, order, indexes, indexFns, hash, loaded, last, replaced>>

\* the RedisCache, the server and their history
redisVars == <<redisConfig, remote, pipes, rlast>>

cacheState == <<data, order, indexes, indexFns, hash>>

\* the lock of the MemoryCache, the goroutines that call it, and their history
lockVars == <<mu, goroutines, committed>>

----------------------------------------------------------------------------
(* Bounds *)

\* longest slice passed to Set
MaxLen == 2

----------------------------------------------------------------------------
(* Strings *)

EmptyStr == << >>

Lower(c) ==
    CASE c = "A" -> "a"
      [] c = "B" -> "b"
      [] OTHER -> c

\* strings.ToLower
ToLower(s) == [i \in 1..Len(s) |-> Lower(s[i])]

RECURSIVE TrimLeft(_)
TrimLeft(s) ==
    IF s # EmptyStr /\ Head(s) = " " THEN TrimLeft(Tail(s)) ELSE s

RECURSIVE TrimRight(_)
TrimRight(s) ==
    IF s # EmptyStr /\ s[Len(s)] = " " THEN TrimRight(SubSeq(s, 1, Len(s) - 1)) ELSE s

\* strings.TrimSpace
TrimSpace(s) == TrimRight(TrimLeft(s))

\* MemoryCache.normalizeKey: lowercase, trimmed
normalizeKey(key) == ToLower(TrimSpace(key))

\* sha256Hash: the hex digest, modelled as a collision-free tagged image of
\* the hashed string; never the empty string
sha256Hash(s) == <<"#">> \o s

----------------------------------------------------------------------------
(* Values and the functions a Config can carry *)

TestUser(id, email) == [ID |-> id, Email |-> email]

\* the values callers pass to Set
Values ==
    { TestUser(<<"1">>, <<"a">>),
      TestUser(<<"2">>, <<" ", "A">>),
      TestUser(<<"2">>, <<" ">>),
      TestUser(<<" ">>, EmptyStr) }

RECURSIVE SeqsUpTo(_, _)
SeqsUpTo(S, n) ==
    IF n = 0 THEN { << >> }
    ELSE LET shorter == SeqsUpTo(S, n - 1)
         IN  shorter \cup { Append(s, x) : s \in { t \in shorter : Len(t) = n - 1 }, x \in S }

\* the slices callers pass to Set
Inputs == SeqsUpTo(Values, MaxLen)

\* the key extraction functions callers register (KeyFunc[V])
KeyFuncs == {"Email"}

ApplyKeyFunc(fn, v) == v.Email

\* the index names callers use
IndexNameSet == {"email", "alt"}

\* Config.PrimaryKeyFunc as the tests set it: func(u) string { return u.ID }
PrimaryKeyFunc(v) == v.ID

\* a caller's Config.NormalizeFunc in the style of the README's (which
\* lowercases the Email): trims the ID, trims and lowercases the Email
NormalizeFunc(v) == TestUser(TrimSpace(v.ID), ToLower(TrimSpace(v.Email)))

\* Config.ValidateFunc as in TestMemoryCache_Validation: "email is required";
\* TRUE when the function returns nil
ValidateFunc(v) == v.Email # EmptyStr

\* fmt.Sprintf("%v\n", v) for a TestUser: {ID Email Phone Name}\n
Render(v) == <<"{">> \o v.ID \o <<" ">> \o v.Email \o <<" ", " ", "}", "\n">>

RECURSIVE Concat(_)
Concat(ss) == IF ss = << >> THEN << >> ELSE Head(ss) \o Concat(Tail(ss))

\* defaultHashFunc
defaultHashFunc(values) ==
    IF Len(values) = 0 THEN sha256Hash(<<"e", "m", "p", "t", "y">>)
    ELSE sha256Hash(Concat([i \in 1..Len(values) |-> Render(values[i])]))

\* a custom Config.HashFunc as in TestMemoryCache_HashWithCustomHashFunc: a constant
customHashFunc(values) == <<"c">>

\* s < t for Go strings over the modelled alphabet (byte order)
Code(c) ==
    CASE c = "\n" -> 10 [] c = " " -> 32 [] c = "1" -> 49 [] c = "2" -> 50
      [] c = "A" -> 65 [] c = "B" -> 66 [] c = "a" -> 97 [] c = "b" -> 98
      [] OTHER -> 127

RECURSIVE StrLess(_, _)
StrLess(s, t) ==
    IF t = EmptyStr THEN FALSE
    ELSE IF s = EmptyStr THEN TRUE
    ELSE IF Head(s) # Head(t) THEN Code(Head(s)) < Code(Head(t))
    ELSE StrLess(Tail(s), Tail(t))

\* StringSorter(func(u) string { return u.ID }): a sorted copy (insertion sort;
\* the keys of the values it is given are pairwise distinct)
RECURSIVE InsertSorted(_, _)
InsertSorted(sorted, v) ==
    IF sorted = << >> THEN <<v>>
    ELSE IF StrLess(v.ID, Head(sorted).ID) THEN <<v>> \o sorted
    ELSE <<Head(sorted)>> \o InsertSorted(Tail(sorted), v)

RECURSIVE StringSorter(_)
StringSorter(values) ==
    IF values = << >> THEN << >>
    ELSE InsertSorted(StringSorter(SubSeq(values, 1, Len(values) - 1)), values[Len(values)])

----------------------------------------------------------------------------
(* Go maps *)

EmptyMap == << >>

Put(m, k, v) == [x \in (DOMAIN m) \cup {k} |-> IF x = k THEN v ELSE m[x]]

Delete(m, k) == [x \in (DOMAIN m) \ {k} |-> m[x]]

----------------------------------------------------------------------------
(* MemoryCache *)

\* the values of the cache in insertion order (the loop of GetAll, Iterate
\* and calculateHash)
ValuesInOrder(d, ord) ==
    LET present == SelectSeq(ord, LAMBDA pk : pk \in DOMAIN d)
    IN  [i \in 1..Len(present) |-> d[present[i]]]

\* MemoryCache.calculateHash without the call of SortFunc
calculateHash_Unsorted(cfg, d, ord) ==
    IF Cardinality(DOMAIN d) = 0 THEN sha256Hash(<<"e", "m", "p", "t", "y">>)
    ELSE LET values == ValuesInOrder(d, ord)
         IN  IF cfg.HashFunc = "custom" THEN customHashFunc(values)
             ELSE defaultHashFunc(values)

\* MemoryCache.calculateHash
calculateHash(cfg, d, ord) ==
    IF Cardinality(DOMAIN d) = 0 THEN sha256Hash(<<"e", "m", "p", "t", "y">>)
    ELSE LET values == ValuesInOrder(d, ord)
             sorted == IF cfg.SortFunc THEN StringSorter(values) ELSE values
         IN  IF cfg.HashFunc = "custom" THEN customHashFunc(sorted)
             ELSE defaultHashFunc(sorted)

\* MemoryCache.Set, "Track insertion order", without the test for an existing key
TrackOrder_AlwaysAppend(d, ord, pk) == Append(ord, pk)

\* MemoryCache.Set, "Track insertion order"
TrackOrder(d, ord, pk) == IF pk \in DOMAIN d THEN ord ELSE Append(ord, pk)

\* MemoryCache.Set, "Store value", keeping the first value of a primary key
StoreValue_FirstWins(d, pk, v) == IF pk \in DOMAIN d THEN d ELSE Put(d, pk, v)

\* MemoryCache.Set, "Store value"
StoreValue(d, pk, v) == Put(d, pk, v)

\* MemoryCache.Set, "Update all indexes", storing the index key as extracted
UpdateIndexes_RawIndexKey(fns, idxs, pk, v) ==
    [name \in DOMAIN fns |->
        LET indexKey == ApplyKeyFunc(fns[name], v)
        IN  IF indexKey # EmptyStr THEN Put(idxs[name], indexKey, pk) ELSE idxs[name]]

\* MemoryCache.Set, "Update all indexes"
UpdateIndexes(fns, idxs, pk, v) ==
    [name \in DOMAIN fns |->
        LET indexKey == ApplyKeyFunc(fns[name], v)
        IN  IF indexKey # EmptyStr THEN Put(idxs[name], normalizeKey(indexKey), pk) ELSE idxs[name]]

\* one iteration of the loop of MemoryCache.Set, validating the value as
\* passed in and normalizing it afterwards
SetValue_ValidateFirst(cfg, fns, st, v0) ==
    LET v  == IF cfg.NormalizeFunc THEN NormalizeFunc(v0) ELSE v0
        pk == IF cfg.PrimaryKeyFunc THEN PrimaryKeyFunc(v) ELSE EmptyStr
    IN  IF cfg.ValidateFunc /\ ~ValidateFunc(v0) THEN st
        ELSE IF pk = EmptyStr THEN st
        ELSE [data    |-> StoreValue(st.data, pk, v),
              order   |-> TrackOrder(st.data, st.order, pk),
              indexes |-> UpdateIndexes(fns, st.indexes, pk, v)]

\* one iteration of the loop of MemoryCache.Set over values
SetValue(cfg, fns, st, v0) ==
    LET v  == IF cfg.NormalizeFunc THEN NormalizeFunc(v0) ELSE v0
        pk == IF cfg.PrimaryKeyFunc THEN PrimaryKeyFunc(v) ELSE EmptyStr
    IN  IF cfg.ValidateFunc /\ ~ValidateFunc(v) THEN st
        ELSE IF pk = EmptyStr THEN st
        ELSE [data    |-> StoreValue(st.data, pk, v),
              order   |-> TrackOrder(st.data, st.order, pk),
              indexes |-> UpdateIndexes(fns, st.indexes, pk, v)]

RECURSIVE SetLoop(_, _, _, _)
SetLoop(cfg, fns, st, values) ==
    IF values = << >> THEN st
    ELSE SetLoop(cfg, fns, SetValue(cfg, fns, st, Head(values)), Tail(values))

\* the body of MemoryCache.Set without the reset of data, order and indexes:
\* the values are merged into what the cache holds
SetResult_Merge(cfg, fns, values) ==
    SetLoop(cfg, fns,
            [data |-> data, order |-> order, indexes |-> [name \in DOMAIN fns |-> indexes[name]]],
            values)

\* the body of MemoryCache.Set under the lock, up to the hash: data, order and
\* every index are emptied, then the values are processed in order
SetResult(cfg, fns, values) ==
    SetLoop(cfg, fns,
            [data |-> EmptyMap, order |-> << >>, indexes |-> [name \in DOMAIN fns |-> EmptyMap]],
            values)

\* MemoryCache.Set without its check of PrimaryKeyFunc
SetPanics_Never(cfg, values) == FALSE

\* the panic condition at the top of MemoryCache.Set
SetPanics(cfg, values) == Len(values) > 0 /\ ~cfg.PrimaryKeyFunc

\* the indexes AddIndex can build for keyFunc from the data: Go ranges over the
\* map c.data in an unspecified order, so of several primary keys with the
\* same normalized index key any one can be the last written
RebuiltIndexes(d, keyFunc) ==
    LET indexed == { pk \in DOMAIN d : ApplyKeyFunc(keyFunc, d[pk]) # EmptyStr }
        keyOf(pk) == normalizeKey(ApplyKeyFunc(keyFunc, d[pk]))
        keys == { keyOf(pk) : pk \in indexed }
    IN  { idx \in [keys -> indexed] : \A k \in keys : keyOf(idx[k]) = k }

\* MemoryCache.GetByIndex looking the key up as it was passed in
GetByIndexIn_RawKey(d, idxs, indexName, key) ==
    IF indexName \notin DOMAIN idxs THEN [found |-> FALSE]
    ELSE LET index == idxs[indexName]
         IN  IF key \notin DOMAIN index THEN [found |-> FALSE]
             ELSE IF index[key] \notin DOMAIN d THEN [found |-> FALSE]
             ELSE [found |-> TRUE, value |-> d[index[key]]]

\* MemoryCache.GetByIndex: [found, value]
GetByIndexIn(d, idxs, indexName, key) ==
    IF indexName \notin DOMAIN idxs THEN [found |-> FALSE]
    ELSE LET index == idxs[indexName]
             nk == normalizeKey(key)
         IN  IF nk \notin DOMAIN index THEN [found |-> FALSE]
             ELSE IF index[nk] \notin DOMAIN d THEN [found |-> FALSE]
             ELSE [found |-> TRUE, value |-> d[index[nk]]]

GetByIndex(indexName, key) == GetByIndexIn(data, indexes, indexName, key)

\* MemoryCache.Get: [found, value]
Get(key) == IF key \in DOMAIN data THEN [found |-> TRUE, value |-> data[key]] ELSE [found |-> FALSE]

\* MemoryCache.GetAll
GetAll == ValuesInOrder(data, order)

\* MemoryCache.Len (named CacheLen: Len is the length of a sequence)
CacheLen == Cardinality(DOMAIN data)

\* MemoryCache.GetHash
GetHash == hash

\* MemoryCache.HasIndex
HasIndex(name) == name \in DOMAIN indexFns

\* MemoryCache.IndexCount
IndexCount == Cardinality(DOMAIN indexFns)

\* MemoryCache.IndexNames (as a set: the order of the slice is unspecified)
IndexNames == DOMAIN indexFns

----------------------------------------------------------------------------
\* the configurations a cache is constructed with
Configs ==
    [PrimaryKeyFunc : BOOLEAN, NormalizeFunc : BOOLEAN, ValidateFunc : BOOLEAN,
     SortFunc : {FALSE}, HashFunc : {"default"}]
    \cup
    [PrimaryKeyFunc : {TRUE}, NormalizeFunc : {FALSE}, ValidateFunc : {FALSE},
     SortFunc : BOOLEAN, HashFunc : {"nil", "custom"}]

\* a call on the cache: the operation, the index name it was given (AddIndex,
\* RemoveIndex), the length of the slice it was given (Set), whether it panicked
Call(op, name, n, panicked) == [op |-> op, name |-> name, n |-> n, panicked |-> panicked]

NoCall == Call("New", "", 0, FALSE)

----------------------------------------------------------------------------
(* The Redis server and the RedisCache configuration *)

\* time.Hour, in the time unit of the model (20 minutes)
OneHour == 3

\* redis.Nil: the key does not exist
NoKey == [exists |-> FALSE]

\* a key that exists; ttl = NoExpiry when it never expires
NoExpiry == 0 - 1

Entry(val, ttl) == [exists |-> TRUE, val |-> val, ttl |-> ttl]

\* an empty server: neither c.key nor c.versionKey() exists
NoKeys == [key |-> NoKey, versionKey |-> NoKey]

\* the clients of the server: RedisCache instances over the same keys
Clients == {"c1", "c2"}

\* a client's pipeline at the server: the commands not applied yet and the
\* number of commands applied; a client without a call in progress has none
Pipe(cmds, applied) == [cmds |-> cmds, applied |-> applied]

NoPipes == [c \in Clients |-> Pipe(<< >>, 0)]

\* DefaultRedisConfig with a client: TTL = 1 hour, no maximum payload size
DefaultRedisConfig == [client |-> TRUE, TTL |-> OneHour, MaxValueBytes |-> 0]

\* a call on a RedisCache or HybridCache: the operation, the client that made
\* it, its arguments, whether it returned an error, and what it returned (for
\* a call that runs a pipeline: the number of commands the server applied)
RedisCall(op, c, arg, err, ret) == [op |-> op, client |-> c, arg |-> arg, err |-> err, ret |-> ret]

NoRedisCall == RedisCall("New", "c1", << >>, FALSE, 0)

\* the history of concurrent clients before any call
NoHist ==
    [succeeded |-> 0, args |-> [c \in Clients |-> << >>], stored |-> [client |-> "none", values |-> << >>],
     seen |-> << >>]

\* the goroutines that call the MemoryCache
Goroutines == {"g1", "g2"}

\* a sync.RWMutex: the goroutine that holds the writer mutex w (it has
\* announced itself to the readers and waits for them to leave, or writes),
\* the read locks each goroutine holds, and the goroutines blocked in RLock
RWMutex(w, readers, rwait) == [w |-> w, readers |-> readers, rwait |-> rwait]

\* the zero value of sync.RWMutex
Unlocked == RWMutex("none", [g \in Goroutines |-> 0], {})

\* a goroutine in a call on the MemoryCache: where it is in the call (pc), the
\* call (op, arg), how many steps of it are done (i), and, for a call made by
\* the callback of an Iterate, the Iterate that waits for it (outer)
Goroutine(pc, op, arg, i, outer) == [pc |-> pc, op |-> op, arg |-> arg, i |-> i, outer |-> outer]

\* a goroutine in no call
Idle == Goroutine("idle", "", << >>, 0, << >>)

\* the fields of a MemoryCache the lock protects
Snapshot(d, ord, idxs, fns, h) == [data |-> d, order |-> ord, indexes |-> idxs, indexFns |-> fns, hash |-> h]

\* a MemoryCache as NewMultiIndexCache returns it
EmptySnapshot == Snapshot(EmptyMap, << >>, EmptyMap, EmptyMap, EmptyStr)

\* no goroutine in a call on a new MemoryCache
NoGoroutines ==
    /\ mu = Unlocked
    /\ goroutines = [g \in Goroutines |-> Idle]
    /\ committed = EmptySnapshot

\* NewMultiIndexCache
Init ==
    /\ config \in Configs
    /\ data = EmptyMap
    /\ order = << >>
    /\ indexes = EmptyMap
    /\ indexFns = EmptyMap
    /\ hash = EmptyStr
    /\ loaded = << >>
    /\ last = NoCall
    /\ replaced = FALSE
    /\ redisConfig = DefaultRedisConfig
    /\ remote = NoKeys
    /\ pipes = NoPipes
    /\ rlast = NoRedisCall
    /\ hist = NoHist
    /\ NoGoroutines

\* MemoryCache.Set(values) returning without "Calculate hash"
Set_StaleHash(values) ==
    /\ ~SetPanics(config, values)
    /\ \E st \in {SetResult(config, indexFns, values)} :
           /\ data' = st.data
           /\ order' = st.order
           /\ indexes' = st.indexes
    /\ hash' = hash
    /\ loaded' = values
    /\ last' = Call("Set", "", Len(values), FALSE)
    /\ replaced' = (data # EmptyMap)
    /\ UNCHANGED <<config, indexFns>>
    /\ UNCHANGED redisVars
    /\ UNCHANGED <<lockVars, hist>>

\* MemoryCache.Set(values)
Set(values) ==
    /\ ~SetPanics(config, values)
    /\ \E st \in {SetResult(config, indexFns, values)} :
           /\ data' = st.data
           /\ order' = st.order
           /\ indexes' = st.indexes
           /\ hash' = calculateHash(config, st.data, st.order)
    /\ loaded' = values
    /\ last' = Call("Set", "", Len(values), FALSE)
    /\ replaced' = (data # EmptyMap)
    /\ UNCHANGED <<config, indexFns>>
    /\ UNCHANGED redisVars
    /\ UNCHANGED <<lockVars, hist>>

\* MemoryCache.Set(values) panicking before it takes the lock; the caller
\* recovers (as TestMemoryCache_NoPrimaryKeyFunc does) and goes on
SetPanic(values) ==
    /\ SetPanics(config, values)
    /\ last' = Call("Set", "", Len(values), TRUE)
    /\ replaced' = FALSE
    /\ UNCHANGED <<config, data, order, indexes, indexFns, hash, loaded>>
    /\ UNCHANGED redisVars
    /\ UNCHANGED <<lockVars, hist>>

\* MemoryCache.AddIndex(name, keyFunc)
AddIndex(name, keyFunc) ==
    /\ indexFns' = Put(indexFns, name, keyFunc)
    /\ \E idx \in RebuiltIndexes(data, keyFunc) : indexes' = Put(indexes, name, idx)
    /\ last' = Call("AddIndex", name, 0, FALSE)
    /\ replaced' = FALSE
    /\ UNCHANGED <<config, data, order, hash, loaded>>
    /\ UNCHANGED redisVars
    /\ UNCHANGED <<lockVars, hist>>

\* MemoryCache.RemoveIndex(name)
RemoveIndex(name) ==
    /\ indexFns' = Delete(indexFns, name)
    /\ indexes' = Delete(indexes, name)
    /\ last' = Call("RemoveIndex", name, 0, FALSE)
    /\ replaced' = FALSE
    /\ UNCHANGED <<config, data, order, hash, loaded>>
    /\ UNCHANGED redisVars
    /\ UNCHANGED <<lockVars, hist>>

\* MemoryCache.Clear leaving the order sequence in place
Clear_KeepOrder ==
    /\ data' = EmptyMap
    /\ indexes' = [name \in DOMAIN indexes |-> EmptyMap]
    /\ hash' = EmptyStr
    /\ loaded' = << >>
    /\ last' = Call("Clear", "", 0, FALSE)
    /\ replaced' = FALSE
    /\ UNCHANGED <<config, order, indexFns>>
    /\ UNCHANGED redisVars
    /\ UNCHANGED <<lockVars, hist>>

\* MemoryCache.Clear leaving the entries of the indexes in place
Clear_KeepEntries ==
    /\ data' = EmptyMap
    /\ order' = << >>
    /\ hash' = EmptyStr
    /\ loaded' = << >>
    /\ last' = Call("Clear", "", 0, FALSE)
    /\ replaced' = FALSE
    /\ UNCHANGED <<config, indexes, indexFns>>
    /\ UNCHANGED redisVars
    /\ UNCHANGED <<lockVars, hist>>

\* MemoryCache.Clear removing the indexes with the data
Clear_DropIndexes ==
    /\ data' = EmptyMap
    /\ order' = << >>
    /\ indexes' = EmptyMap
    /\ indexFns' = EmptyMap
    /\ hash' = EmptyStr
    /\ loaded' = << >>
    /\ last' = Call("Clear", "", 0, FALSE)
    /\ replaced' = FALSE
    /\ UNCHANGED config
    /\ UNCHANGED redisVars
    /\ UNCHANGED <<lockVars, hist>>

\* MemoryCache.Clear
Clear ==
    /\ data' = EmptyMap
    /\ order' = << >>
    /\ indexes' = [name \in DOMAIN indexes |-> EmptyMap]
    /\ hash' = EmptyStr
    /\ loaded' = << >>
    /\ last' = Call("Clear", "", 0, FALSE)
    /\ replaced' = FALSE
    /\ UNCHANGED <<config, indexFns>>
    /\ UNCHANGED redisVars
    /\ UNCHANGED <<lockVars, hist>>

Next ==
    \/ \E values \in Inputs : Set(values)
    \/ \E values \in Inputs : SetPanic(values)
    \/ \E name \in IndexNameSet, keyFunc \in KeyFuncs : AddIndex(name, keyFunc)
    \/ \E name \in IndexNameSet : RemoveIndex(name)
    \/ Clear

Spec == Init /\ [][Next]_vars

----------------------------------------------------------------------------
(* What a Set call is expected to accept, stated without the loop of Set *)

\* the value Set works on for the input value v
Normalized(v) == IF config.NormalizeFunc THEN NormalizeFunc(v) ELSE v

\* the normalized value v is accepted: it passes validation and has a
\* non-empty primary key
IsAccepted(v) ==
    /\ config.ValidateFunc => ValidateFunc(v)
    /\ config.PrimaryKeyFunc
    /\ PrimaryKeyFunc(v) # EmptyStr

\* the accepted values of the last Set, normalized, in input order
AcceptedValues ==
    SelectSeq([i \in 1..Len(loaded) |-> Normalized(loaded[i])], IsAccepted)

AcceptedKeys == { PrimaryKeyFunc(AcceptedValues[i]) : i \in 1..Len(AcceptedValues) }

Max(S) == CHOOSE x \in S : \A y \in S : y <= x

\* the last accepted value with primary key k
LastAccepted(k) ==
    AcceptedValues[Max({ i \in 1..Len(AcceptedValues) : PrimaryKeyFunc(AcceptedValues[i]) = k })]

\* the normalized key of value v in index name
IndexKeyOf(name, v) == normalizeKey(ApplyKeyFunc(indexFns[name], v))

\* the last call was a Set that returned
AfterSet == last.op = "Set" /\ ~last.panicked

Found(v) == [found |-> TRUE, value |-> v]

NotFound == [found |-> FALSE]

\* the keys callers look up
LookupKeys ==
    { EmptyStr, <<" ">>, <<"a">>, <<"A">>, <<" ", "A">>, <<"a", " ">>, <<"b">>, <<"1">>, <<"2">> }

----------------------------------------------------------------------------
(* Claims *)

\* C1 (as stated): after Set(vs), for every registered index and every
\* accepted value v of vs whose index key is non-empty,
\* GetByIndex(name, normalizeKey(keyFunc(v))) returns the value currently
\* stored under the primary key of v.
C1_AsStated ==
    AfterSet =>
        \A name \in DOMAIN indexFns : \A i \in 1..Len(AcceptedValues) :
            LET v == AcceptedValues[i]
            IN  ApplyKeyFunc(indexFns[name], v) # EmptyStr =>
                    GetByIndex(name, IndexKeyOf(name, v)) = Found(data[PrimaryKeyFunc(v)])

\* C1 (amended): after Set(vs), for every registered index and every accepted
\* value v of vs whose index key is non-empty, GetByIndex(name,
\* normalizeKey(keyFunc(v))) returns found together with the value currently
\* stored under the primary key of the last accepted value of vs that has the
\* same normalized index key; that is the primary key of v whenever no
\* accepted value with another primary key shares the index key of v.
C1_IndexConsistency ==
    AfterSet =>
        \A name \in DOMAIN indexFns : \A i \in 1..Len(AcceptedValues) :
            LET v == AcceptedValues[i]
                same == { j \in 1..Len(AcceptedValues) :
                            /\ ApplyKeyFunc(indexFns[name], AcceptedValues[j]) # EmptyStr
                            /\ IndexKeyOf(name, AcceptedValues[j]) = IndexKeyOf(name, v) }
            IN  ApplyKeyFunc(indexFns[name], v) # EmptyStr =>
                    /\ GetByIndex(name, IndexKeyOf(name, v))
                          = Found(data[PrimaryKeyFunc(AcceptedValues[Max(same)])])
                    /\ (\A j \in same : PrimaryKeyFunc(AcceptedValues[j]) = PrimaryKeyFunc(v))
                          => GetByIndex(name, IndexKeyOf(name, v)) = Found(data[PrimaryKeyFunc(v)])

\* a Set, with both indexes registered, of two values with different primary
\* keys whose index keys normalize to the same key: the later value owns it
C1_Witness ==
    /\ AfterSet
    /\ loaded = << TestUser(<<"2">>, <<" ", "A">>), TestUser(<<"1">>, <<"a">>) >>
    /\ DOMAIN indexFns = IndexNameSet
    /\ CacheLen = 2
    /\ GetByIndex("email", <<" ", "A">>) = Found(TestUser(<<"1">>, <<"a">>))
    /\ GetByIndex("alt", <<"a">>) = Found(TestUser(<<"1">>, <<"a">>))

\* C2: AddIndex on an existing dataset leaves the index with the entries it
\* would have had if it had been registered before the dataset was loaded:
\* after Set(vs); AddIndex(n, f) index n holds exactly the entries that
\* AddIndex(n, f); Set(vs) gives it.
C2_AsStated ==
    last.op = "AddIndex" =>
        indexes[last.name] = SetResult(config, indexFns, loaded).indexes[last.name]

\* C3: after Set(vs) every entry k -> pk of every index is derived from the
\* value currently stored under pk: k = normalizeKey(keyFunc(data[pk])).
C3_AsStated ==
    AfterSet =>
        \A name \in DOMAIN indexes : \A k \in DOMAIN indexes[name] :
            LET pk == indexes[name][k]
            IN  /\ pk \in DOMAIN data
                /\ ApplyKeyFunc(indexFns[name], data[pk]) # EmptyStr
                /\ k = IndexKeyOf(name, data[pk])

\* C4: after Set(vs), Len() is the number of distinct non-empty primary keys
\* among the values of vs that pass validation after normalization, and
\* Get(k) returns the last accepted value with primary key k (and nothing
\* for any other key).
C4_KeyUniqueness ==
    AfterSet =>
        /\ CacheLen = Cardinality(AcceptedKeys)
        /\ \A k \in AcceptedKeys : Get(k) = Found(LastAccepted(k))
        /\ \A k \in LookupKeys \ AcceptedKeys : Get(k) = NotFound

\* a Set of two accepted values with the same primary key
C4_Witness ==
    /\ AfterSet
    /\ loaded = << TestUser(<<"2">>, <<" ", "A">>), TestUser(<<"2">>, <<" ">>) >>
    /\ CacheLen = 1
    /\ Get(<<"2">>) = Found(TestUser(<<"2">>, <<" ">>))

\* the primary keys of the accepted values in the order of their first occurrence
RECURSIVE FirstOccurrences(_)
FirstOccurrences(values) ==
    IF values = << >> THEN << >>
    ELSE LET before == FirstOccurrences(SubSeq(values, 1, Len(values) - 1))
             pk == PrimaryKeyFunc(values[Len(values)])
         IN  IF \E i \in 1..Len(before) : before[i] = pk THEN before ELSE Append(before, pk)

C6_NoDanglingIndexEntries ==
    \A name \in DOMAIN indexes : \A k \in DOMAIN indexes[name] :
        indexes[name][k] \in DOMAIN data

\* a Set that left two entries in an index and one value in the mapping: the
\* entry of the overwritten value still points to a stored key
C6_Witness ==
    /\ AfterSet
    /\ CacheLen = 1
    /\ \E name \in DOMAIN indexes : Cardinality(DOMAIN indexes[name]) = 2

\* C7: after Clear(), GetHash() is the digest of the empty dataset, the value
\* GetHash() has after Set(empty).
C7_AsStated ==
    last.op = "Clear" => GetHash = calculateHash(config, EmptyMap, << >>)

\* C8: Clear() empties the dataset and keeps the index registrations: Len()
\* is 0, GetAll() is empty, the registered index names are the same as
\* before, and GetByIndex finds nothing under any registered name and key.
C8_ClearKeepsIndexes ==
    [][last'.op = "Clear" =>
          /\ CacheLen' = 0
          /\ GetAll' = << >>
          /\ IndexNames' = IndexNames
          /\ IndexCount' = IndexCount
          /\ \A name \in IndexNameSet : HasIndex(name)' = HasIndex(name)
          /\ indexFns' = indexFns
          /\ \A name \in IndexNames' : \A k \in LookupKeys :
                 GetByIndex(name, k)' = NotFound]_vars

\* a Clear of a cache with both indexes registered
C8_Witness ==
    /\ last.op = "Clear"
    /\ IndexCount = 2
    /\ HasIndex("email")

\* C9: Set with a non-empty input and no primary-key extractor panics and
\* leaves data, order, indexes and hash as they were; Set with an empty
\* input never panics and yields an empty cache.
C9_SetWithoutPrimaryKeyFunc ==
    [][last'.op = "Set" =>
          /\ last'.panicked <=> (last'.n > 0 /\ ~config.PrimaryKeyFunc)
          /\ last'.panicked => UNCHANGED cacheState
          /\ last'.n = 0 => (CacheLen' = 0 /\ GetAll' = << >> /\ order' = << >>)]_vars

\* a Set that panicked on a cache that already had an index and a hash
C9_Witness ==
    /\ last.op = "Set"
    /\ last.panicked
    /\ IndexCount > 0
    /\ hash # EmptyStr

\* C10: Set normalizes, then validates, then extracts the primary key: what
\* is stored is the normalized value, under the primary key of the
\* normalized value; a value that fails validation after normalization or
\* has an empty primary key is in neither data, order nor any index; and no
\* error is reported.
C10_Pipeline ==
    last.op = "Set" /\ config.PrimaryKeyFunc =>
        /\ ~last.panicked
        /\ DOMAIN data = AcceptedKeys
        /\ \A pk \in DOMAIN data :
              /\ IsAccepted(data[pk])
              /\ PrimaryKeyFunc(data[pk]) = pk
              /\ \E i \in 1..Len(loaded) : data[pk] = Normalized(loaded[i])
        /\ \A i \in 1..Len(order) : order[i] \in AcceptedKeys
        /\ \A name \in DOMAIN indexes : \A k \in DOMAIN indexes[name] :
              \E i \in 1..Len(AcceptedValues) :
                  /\ PrimaryKeyFunc(AcceptedValues[i]) = indexes[name][k]
                  /\ ApplyKeyFunc(indexFns[name], AcceptedValues[i]) # EmptyStr
                  /\ IndexKeyOf(name, AcceptedValues[i]) = k

\* a Set, with normalizer and validator, of a value that is valid only before
\* normalization and a value that is accepted
C10_Witness ==
    /\ AfterSet
    /\ config.NormalizeFunc /\ config.ValidateFunc
    /\ loaded = << TestUser(<<"2">>, <<" ">>), TestUser(<<"1">>, <<"a">>) >>
    /\ DOMAIN indexFns = IndexNameSet
    /\ GetAll = << TestUser(<<"1">>, <<"a">>) >>

----------------------------------------------------------------------------
(* C11 *)

\* a cache as NewMultiIndexCache and AddIndex of the indexes fns leave it
NewCache(fns) ==
    [data |-> EmptyMap, order |-> << >>, indexes |-> [name \in DOMAIN fns |-> EmptyMap]]

\* what the loop of Set makes of values on such a new cache: "Set(values) alone"
SetAlone(values) == SetLoop(config, indexFns, NewCache(indexFns), values)

\* C11: Set is a full replacement.  After every completed Set(b), whatever the
\* cache held before (nothing, the result of a Set(a), the result of the same
\* Set(b)), each of Get, GetAll, Len, GetByIndex and GetHash answers as it does
\* on a new cache with the same indexes on which Set(b) alone was called.
C11_FullReplacement ==
    AfterSet =>
        LET alone == SetAlone(loaded)
        IN  /\ GetAll = ValuesInOrder(alone.data, alone.order)
            /\ CacheLen = Cardinality(DOMAIN alone.data)
            /\ \A k \in LookupKeys :
                   Get(k) = IF k \in DOMAIN alone.data THEN Found(alone.data[k]) ELSE NotFound
            /\ \A name \in IndexNameSet, k \in LookupKeys :
                   GetByIndex(name, k) = GetByIndexIn(alone.data, alone.indexes, name, k)
            /\ GetHash = calculateHash(config, alone.data, alone.order)

\* a Set of one value that replaced a non-empty dataset, with an index
C11_Witness ==
    /\ AfterSet
    /\ replaced
    /\ loaded = << TestUser(<<"1">>, <<"a">>) >>
    /\ CacheLen = 1
    /\ GetByIndex("email", <<"a">>).found
    /\ ~GetByIndex("email", <<" ">>).found

----------------------------------------------------------------------------
(* C12 *)

\* k1 and k2 are equal after case-folding and trimming
SameFolded(k1, k2) == TrimSpace(ToLower(k1)) = TrimSpace(ToLower(k2))

\* the pairs of different lookup keys that are equal after folding and trimming
FoldedPairs ==
    { p \in LookupKeys \X LookupKeys : p[1] # p[2] /\ SameFolded(p[1], p[2]) }

\* C12: GetByIndex normalizes the lookup key.  In every state, for every index
\* name, two lookup keys that are equal after case-folding and trimming get
\* the same answer, and an index name that is not registered gets not-found
\* for every key.
C12_LookupKeyNormalized ==
    /\ \A name \in IndexNameSet, p \in FoldedPairs :
           GetByIndex(name, p[1]) = GetByIndex(name, p[2])
    /\ \A name \in (IndexNameSet \cup {"phone"}) \ IndexNames, k \in LookupKeys :
           GetByIndex(name, k) = NotFound

\* the value stored under the index key "a" is found under " A" and "A", and
\* the index "alt" is not registered
C12_Witness ==
    /\ HasIndex("email")
    /\ ~HasIndex("alt")
    /\ GetByIndex("email", <<" ", "A">>) = Found(TestUser(<<"1">>, <<"a">>))
    /\ GetByIndex("email", <<"A">>) = Found(TestUser(<<"1">>, <<"a">>))
    /\ GetByIndex("alt", <<"a">>) = NotFound

----------------------------------------------------------------------------
(* C13 *)

\* the permutations of a slice
Perms(values) ==
    { [i \in 1..Len(values) |-> values[f[i]]] : f \in Permutations(1..Len(values)) }

\* the primary keys of a slice are non-empty and pairwise distinct
DistinctKeys(values) ==
    /\ \A i \in 1..Len(values) : PrimaryKeyFunc(values[i]) # EmptyStr
    /\ \A i, j \in 1..Len(values) :
           i # j => PrimaryKeyFunc(values[i]) # PrimaryKeyFunc(values[j])

\* C13: with StringSorter on the primary key as the sort function, the hash
\* after a Set of values with pairwise distinct primary keys is the hash a Set
\* of any permutation of those values gives, while GetAll returns the values
\* in the order of the slice that was passed.
C13_HashOrderIndependent ==
    (AfterSet /\ config.SortFunc /\ DistinctKeys(loaded)) =>
        /\ \A p \in Perms(loaded) :
               LET alone == SetAlone(p)
               IN  /\ GetHash = calculateHash(config, alone.data, alone.order)
                   /\ ValuesInOrder(alone.data, alone.order) = p
        /\ GetAll = loaded

\* a Set of two values in descending order of their primary keys, hashed by
\* the default hash function in ascending order
C13_Witness ==
    /\ AfterSet
    /\ config.SortFunc
    /\ config.HashFunc = "nil"
    /\ loaded = << TestUser(<<"2">>, <<" ", "A">>), TestUser(<<"1">>, <<"a">>) >>
    /\ GetAll = loaded
    /\ GetHash = defaultHashFunc(<< TestUser(<<"1">>, <<"a">>), TestUser(<<"2">>, <<" ", "A">>) >>)

----------------------------------------------------------------------------
(* C14 *)

\* the digest of a dataset: the sort function, then the configured or the
\* default hash function; the digest of "empty" for the empty dataset
DigestOf(values) ==
    IF values = << >> THEN sha256Hash(<<"e", "m", "p", "t", "y">>)
    ELSE LET sorted == IF config.SortFunc THEN StringSorter(values) ELSE values
         IN  IF config.HashFunc = "custom" THEN customHashFunc(sorted)
             ELSE defaultHashFunc(sorted)

HashIsFresh == GetHash = DigestOf(GetAll)

\* a Set has completed on the cache and no Clear has followed it: the last call
\* was such a Set, or the dataset or the cached hash it left is still there
\* (the constructor and Clear leave the dataset and the hash empty)
SetCompleted == AfterSet \/ loaded # << >> \/ hash # EmptyStr

\* C14: digest freshness.  In every state in which a Set has completed and no
\* Clear has followed it, whatever AddIndex, RemoveIndex and panicking Set
\* calls came after it, GetHash is the digest of the dataset GetAll returns.
\* (GetHash, like every read, is a function of the state and not a step: it
\* returns c.hash under the read lock and assigns nothing.)
C14_DigestFreshness == SetCompleted => HashIsFresh

\* a Set of one value followed by an AddIndex: the hash is still the digest of
\* that value
C14_Witness ==
    /\ last.op = "AddIndex"
    /\ config.HashFunc = "default"
    /\ loaded = << TestUser(<<"1">>, <<"a">>) >>
    /\ GetAll = loaded
    /\ GetHash = defaultHashFunc(loaded)

----------------------------------------------------------------------------
(* RedisCache: the commands it sends and what the server makes of them *)

\* highest version the server is taken to; a Set is not started beyond it
MaxVersion == 3

\* json.Marshal of a slice of TestUser: one object per value, its fields by name
jsonMarshal(values) ==
    [i \in 1..Len(values) |-> <<"ID", values[i].ID, "Email", values[i].Email>>]

\* json.Unmarshal into []TestUser: the fields are read back by name
jsonField(obj, name) ==
    LET at == { i \in 1..Len(obj) : i % 2 = 1 /\ obj[i] = name }
    IN  IF at = {} THEN EmptyStr ELSE obj[(CHOOSE i \in at : TRUE) + 1]

\* json.Unmarshal followed by the normalization of the memory cache
jsonUnmarshal_Normalized(blob) ==
    [i \in 1..Len(blob) |->
        NormalizeFunc(TestUser(jsonField(blob[i], "ID"), jsonField(blob[i], "Email")))]

jsonUnmarshal(blob) ==
    [i \in 1..Len(blob) |-> TestUser(jsonField(blob[i], "ID"), jsonField(blob[i], "Email"))]

\* the slices passed to RedisCache and HybridCache
RemoteInputs ==
    { << >>,
      << TestUser(<<"1">>, <<"a">>) >>,
      << TestUser(<<"2">>, <<" ", "A">>), TestUser(<<"1">>, <<"a">>) >>,
      << TestUser(<<"2">>, <<" ", "A">>), TestUser(<<"2">>, <<" ">>) >> }

\* the ttl arguments passed to SetWithTTL: negative, zero, and a duration that
\* differs from the configured TTL and from one hour
TTLArgs == {0 - 1, 0, 1, 3}

\* the maximum payload sizes of Get: none, and one that a payload of two
\* values exceeds (the size of a payload is counted in encoded values)
MaxValueBytesSet == {0, 1}

\* the RedisCache configurations: with or without a client, TTL unset or set,
\* with or without a maximum payload size
RedisConfigs == [client : BOOLEAN, TTL : {0, 2}, MaxValueBytes : MaxValueBytesSet]

\* RedisCache.effectiveTTL without its fallbacks
effectiveTTL_AsGiven(ttl) == ttl

\* RedisCache.effectiveTTL

effectiveTTL(ttl) ==
    IF ttl > 0 THEN ttl
    ELSE IF redisConfig.TTL > 0 THEN redisConfig.TTL
    ELSE OneHour

\* the commands of a pipeline
CmdSet(k, val, ttl) == [cmd |-> "SET", key |-> k, val |-> val, ttl |-> ttl]

CmdIncr(k) == [cmd |-> "INCR", key |-> k, val |-> 0, ttl |-> 0]

CmdExpire(k, ttl) == [cmd |-> "EXPIRE", key |-> k, val |-> 0, ttl |-> ttl]

CmdDel(k) == [cmd |-> "DEL", key |-> k, val |-> 0, ttl |-> 0]

\* the pipeline of RedisCache.Set and SetWithTTL without its Incr
SetPipeline_NoIncr(values, ttl) ==
    << CmdSet("key", jsonMarshal(values), ttl),
       CmdExpire("versionKey", ttl),
       CmdExpire("versionKey", ttl) >>

\* the pipeline of RedisCache.Set and SetWithTTL

SetPipeline(values, ttl) ==
    << CmdSet("key", jsonMarshal(values), ttl),
       CmdIncr("versionKey"),
       CmdExpire("versionKey", ttl) >>

\* the pipeline of RedisCache.Clear
ClearPipeline == << CmdDel("key"), CmdDel("versionKey") >>

\* the pipeline of RedisCache.Refresh without the Expire of the version key
RefreshPipeline_DataOnly(ttl) == << CmdExpire("key", ttl), CmdExpire("key", ttl) >>

\* the pipeline of RedisCache.Refresh

RefreshPipeline(ttl) == << CmdExpire("key", ttl), CmdExpire("versionKey", ttl) >>

\* the server applying one command: SET stores the value with its expiry (a
\* ttl of 0 is sent without expiry), INCR adds one and creates an absent key
\* as 1 without expiry, EXPIRE sets the expiry of an existing key (and removes
\* the key when the ttl is not positive), DEL removes
Apply(db, c) ==
    LET e == db[c.key]
    IN  CASE c.cmd = "SET" ->
               [db EXCEPT ![c.key] = Entry(c.val, IF c.ttl > 0 THEN c.ttl ELSE NoExpiry)]
          [] c.cmd = "INCR" ->
               [db EXCEPT ![c.key] = IF e.exists THEN Entry(e.val + 1, e.ttl) ELSE Entry(1, NoExpiry)]
          [] c.cmd = "EXPIRE" ->
               [db EXCEPT ![c.key] = IF e.exists /\ c.ttl > 0 THEN Entry(e.val, c.ttl) ELSE NoKey]
          [] c.cmd = "DEL" ->
               [db EXCEPT ![c.key] = NoKey]

RECURSIVE ApplyAll(_, _)
ApplyAll(db, cmds) ==
    IF cmds = << >> THEN db ELSE ApplyAll(Apply(db, Head(cmds)), Tail(cmds))

\* a server on which no key ever runs out of time
Expired_Never(e) == e

\* the server after one unit of time: a key whose time to live runs out is gone

Expired(e) ==
    IF ~e.exists \/ e.ttl = NoExpiry THEN e
    ELSE IF e.ttl = 1 THEN NoKey
    ELSE Entry(e.val, e.ttl - 1)

\* the dataset stored under the data key, decoded
GetValues(db) == IF db.key.exists THEN jsonUnmarshal(db.key.val) ELSE << >>

\* what a call returns: an error or a value
Result(err, ret) == [err |-> err, ret |-> ret]

\* RedisCache.Get returning redis.Nil as an error
GetResult_NilIsError(cfg, db) ==
    IF ~db.key.exists THEN Result(TRUE, << >>)
    ELSE IF cfg.MaxValueBytes > 0 /\ Len(db.key.val) > cfg.MaxValueBytes THEN Result(TRUE, << >>)
    ELSE Result(FALSE, jsonUnmarshal(db.key.val))

\* RedisCache.Get once the server replied: redis.Nil is an empty dataset, a
\* payload above the configured maximum an error

GetResult(cfg, db) ==
    IF ~db.key.exists THEN Result(FALSE, << >>)
    ELSE IF cfg.MaxValueBytes > 0 /\ Len(db.key.val) > cfg.MaxValueBytes THEN Result(TRUE, << >>)
    ELSE Result(FALSE, jsonUnmarshal(db.key.val))

\* what RedisCache.GetVersion returns without error
GetVersionValue(db) == IF db.versionKey.exists THEN db.versionKey.val ELSE 0

\* RedisCache.GetVersion once the server replied: redis.Nil is version 0
GetVersionResult(db) == Result(FALSE, GetVersionValue(db))

\* what RedisCache.Exists returns without error
ExistsValue(db) == db.key.exists

\* RedisCache.Exists once the server replied: count > 0
ExistsResult(db) == Result(FALSE, ExistsValue(db))

\* the reply of the server to TTL: -2 for a key that does not exist, -1 for a
\* key without expiry, the remaining time to live otherwise
NoSuchKey == 0 - 2

TTLValue(db) == IF db.key.exists THEN db.key.ttl ELSE NoSuchKey

\* RedisCache.TTL once the server replied
TTLResult(db) == Result(FALSE, TTLValue(db))

\* the version counter has room for another INCR
VersionBelowMax == GetVersionValue(remote) < MaxVersion

----------------------------------------------------------------------------
(* RedisCache, one client at a time *)

\* a call on a RedisCache whose client is nil that returns no error
NilClient_NoError(op, arg) ==
    /\ remote' = remote
    /\ rlast' = RedisCall(op, "c1", arg, FALSE, 0)

\* a call on a RedisCache whose client is nil: an error, and no command sent

NilClient(op, arg) ==
    /\ remote' = remote
    /\ rlast' = RedisCall(op, "c1", arg, TRUE, 0)

\* pipe.Exec with no other client in between: the server applies the first n
\* commands; Exec returns nil when it applied them all and the replies were
\* read, and an error when the connection or the context ended before that
RunPipeline(op, arg, cmds) ==
    \E n \in 0..Len(cmds), err \in BOOLEAN :
        /\ n < Len(cmds) => err
        /\ remote' = ApplyAll(remote, SubSeq(cmds, 1, n))
        /\ rlast' = RedisCall(op, "c1", arg, err, n)

\* RedisCache.Set(values) and SetWithTTL(values, ttl) from the nil check on
DoRedisSet(op, values, ttl) ==
    IF ~redisConfig.client THEN NilClient(op, <<values, ttl>>)
    ELSE /\ VersionBelowMax
         /\ RunPipeline(op, <<values, ttl>>, SetPipeline(values, effectiveTTL(ttl)))

\* RedisCache.Set(values)
RedisSet(values) ==
    /\ DoRedisSet("Set", values, redisConfig.TTL)
    /\ UNCHANGED <<redisConfig, pipes>>
    /\ UNCHANGED memoryVars
    /\ UNCHANGED <<lockVars, hist>>

\* RedisCache.SetWithTTL(values, ttl)
RedisSetWithTTL(values, ttl) ==
    /\ DoRedisSet("SetWithTTL", values, ttl)
    /\ UNCHANGED <<redisConfig, pipes>>
    /\ UNCHANGED memoryVars
    /\ UNCHANGED <<lockVars, hist>>

\* a call that sends a single read command: without a client an error and no
\* command; an error when the command failed (connection, deadline); what the
\* call makes of the reply otherwise. The call records how the command went.
ReadCommand(op, reply, zero) ==
    IF ~redisConfig.client THEN rlast' = RedisCall(op, "c1", <<"none">>, TRUE, zero)
    ELSE \E failed \in BOOLEAN :
             rlast' = IF failed THEN RedisCall(op, "c1", <<"failed">>, TRUE, zero)
                      ELSE RedisCall(op, "c1", <<"replied">>, reply.err, reply.ret)

\* RedisCache.Get
RedisGet ==
    /\ ReadCommand("Get", GetResult(redisConfig, remote), << >>)
    /\ UNCHANGED <<redisConfig, remote, pipes>>
    /\ UNCHANGED memoryVars
    /\ UNCHANGED <<lockVars, hist>>

\* RedisCache.Exists
RedisExists ==
    /\ ReadCommand("Exists", ExistsResult(remote), FALSE)
    /\ UNCHANGED <<redisConfig, remote, pipes>>
    /\ UNCHANGED memoryVars
    /\ UNCHANGED <<lockVars, hist>>

\* RedisCache.GetVersion
RedisGetVersion ==
    /\ ReadCommand("GetVersion", GetVersionResult(remote), 0)
    /\ UNCHANGED <<redisConfig, remote, pipes>>
    /\ UNCHANGED memoryVars
    /\ UNCHANGED <<lockVars, hist>>

\* RedisCache.TTL
RedisTTL ==
    /\ ReadCommand("TTL", TTLResult(remote), 0)
    /\ UNCHANGED <<redisConfig, remote, pipes>>
    /\ UNCHANGED memoryVars
    /\ UNCHANGED <<lockVars, hist>>

\* RedisCache.Clear
RedisClear ==
    /\ IF ~redisConfig.client THEN NilClient("Clear", << >>)
       ELSE RunPipeline("Clear", << >>, ClearPipeline)
    /\ UNCHANGED <<redisConfig, pipes>>
    /\ UNCHANGED memoryVars
    /\ UNCHANGED <<lockVars, hist>>

\* RedisCache.Refresh
RedisRefresh ==
    /\ IF ~redisConfig.client THEN NilClient("Refresh", << >>)
       ELSE RunPipeline("Refresh", << >>, RefreshPipeline(effectiveTTL(redisConfig.TTL)))
    /\ UNCHANGED <<redisConfig, pipes>>
    /\ UNCHANGED memoryVars
    /\ UNCHANGED <<lockVars, hist>>

\* the time that has passed since the last write that returned nil, when no
\* call was made since: its arguments and the units of time, counted up to
\* one hour
Elapsed ==
    IF rlast.op \in {"Set", "SetWithTTL"} /\ ~rlast.err THEN RedisCall("Tick", "c1", rlast.arg, FALSE, 1)
    ELSE IF rlast.op = "Tick" /\ rlast.arg # << >>
         THEN RedisCall("Tick", "c1", rlast.arg, FALSE, IF rlast.ret < OneHour THEN rlast.ret + 1 ELSE OneHour)
    ELSE RedisCall("Tick", "c1", << >>, FALSE, 0)

\* one unit of time passes at the server
Tick ==
    /\ remote' = [key |-> Expired(remote.key), versionKey |-> Expired(remote.versionKey)]
    /\ rlast' = Elapsed
    /\ UNCHANGED <<redisConfig, pipes>>
    /\ UNCHANGED memoryVars
    /\ UNCHANGED <<lockVars, hist>>

\* the MemoryCache of a RedisCache used on its own: none is involved, the
\* variables of the MemoryCache stay as its constructor leaves them
PlainConfig ==
    [PrimaryKeyFunc |-> TRUE, NormalizeFunc |-> FALSE, ValidateFunc |-> FALSE,
     SortFunc |-> FALSE, HashFunc |-> "default"]

\* NewRedisCache, on a server that holds neither key
InitRedis ==
    /\ config = PlainConfig
    /\ data = EmptyMap
    /\ order = << >>
    /\ indexes = EmptyMap
    /\ indexFns = EmptyMap
    /\ hash = EmptyStr
    /\ loaded = << >>
    /\ last = NoCall
    /\ replaced = FALSE
    /\ redisConfig \in RedisConfigs
    /\ remote = NoKeys
    /\ pipes = NoPipes
    /\ rlast = NoRedisCall
    /\ hist = NoHist
    /\ NoGoroutines

NextRedis ==
    \/ \E values \in RemoteInputs : RedisSet(values)
    \/ \E values \in RemoteInputs, ttl \in TTLArgs : RedisSetWithTTL(values, ttl)
    \/ RedisGet
    \/ RedisExists
    \/ RedisGetVersion
    \/ RedisTTL
    \/ RedisClear
    \/ RedisRefresh
    \/ Tick

SpecRedis == InitRedis /\ [][NextRedis]_vars

----------------------------------------------------------------------------
(* C15 *)

\* the last step was a RedisCache.Set or SetWithTTL, which returned nil / an error
AfterRedisSet == rlast.op \in {"Set", "SetWithTTL"} /\ ~rlast.err

AfterFailedRedisSet == rlast.op \in {"Set", "SetWithTTL"} /\ rlast.err

\* C15 without its third part: GetVersion reads 0 on the server a new
\* RedisCache finds, a Set or SetWithTTL that returns nil makes GetVersion read
\* exactly one more than before, and a Clear that returns nil makes it read 0.
C15_VersionCounter ==
    [][ /\ rlast.op = "New" => GetVersionValue(remote) = 0
        /\ AfterRedisSet' => GetVersionValue(remote') = GetVersionValue(remote) + 1
        /\ (rlast'.op = "Clear" /\ ~rlast'.err) => GetVersionValue(remote') = 0
      ]_vars

\* C15 (as stated): GetVersion reads 0 before any Set, every Set or SetWithTTL
\* that returns nil makes it read exactly one more, a Set or SetWithTTL that
\* returns an error leaves the value it reads as it was, and after a Clear
\* that returns nil it reads 0.
C15_AsStated ==
    [][ /\ rlast.op = "New" => GetVersionValue(remote) = 0
        /\ AfterRedisSet' => GetVersionValue(remote') = GetVersionValue(remote) + 1
        /\ AfterFailedRedisSet' => GetVersionValue(remote') = GetVersionValue(remote)
        /\ (rlast'.op = "Clear" /\ ~rlast'.err) => GetVersionValue(remote') = 0
      ]_vars

----------------------------------------------------------------------------
(* C17 *)

\* the time to live the specification gives a dataset written with the
\* argument ttl: ttl if positive, else the configured TTL if positive, else
\* one hour
ExpectedTTL(ttl) ==
    IF ttl > 0 THEN ttl ELSE IF redisConfig.TTL > 0 THEN redisConfig.TTL ELSE OneHour

\* C17 is stated for a RedisCache whose calls are not interleaved with another
\* client's (SpecRedis).
\* C17: a dataset is never persisted without an expiry.  Right after a Set or
\* SetWithTTL(vs, ttl) that returned nil, the data key and the version key both
\* exist and carry the same time to live, which is positive and finite: ttl if
\* ttl > 0, else the configured TTL if that is > 0, else one hour (Set passes
\* the configured TTL as its ttl).
C17_NeverWithoutExpiry ==
    AfterRedisSet =>
        /\ remote.key.exists
        /\ remote.versionKey.exists
        /\ remote.key.ttl = remote.versionKey.ttl
        /\ remote.key.ttl # NoExpiry
        /\ remote.key.ttl > 0
        /\ remote.key.ttl = ExpectedTTL(rlast.arg[2])
        /\ rlast.op = "Set" => rlast.arg[2] = redisConfig.TTL

\* SetWithTTL with a ttl of zero on a RedisCache without a configured TTL:
\* both keys expire after one hour
C17_Witness ==
    /\ rlast.op = "SetWithTTL"
    /\ ~rlast.err
    /\ rlast.arg[2] = 0
    /\ redisConfig.TTL = 0
    /\ remote.key.exists
    /\ remote.key.ttl = OneHour
    /\ remote.versionKey.ttl = OneHour

----------------------------------------------------------------------------
(* RedisCache, several clients of the same keys: client.Pipeline() sends the
   commands of a call together, and the server applies them one at a time,
   free to apply another client's command in between *)

\* the slices and ttl arguments the concurrent clients pass
PipelineInputs ==
    { << TestUser(<<"1">>, <<"a">>) >>,
      << TestUser(<<"2">>, <<" ", "A">>), TestUser(<<"1">>, <<"a">>) >> }

PipelineTTLs == {0, 1}

\* the calls in progress
InFlight == { c \in Clients : pipes[c].cmds # << >> }

\* client c calls Set or SetWithTTL(values, ttl): pipe.Exec sends the pipeline
StartSet(c, values, ttl) ==
    /\ redisConfig.client
    /\ c \notin InFlight
    /\ GetVersionValue(remote) + Cardinality(InFlight) < MaxVersion
    /\ pipes' = [pipes EXCEPT ![c] = Pipe(SetPipeline(values, effectiveTTL(ttl)), 0)]
    /\ rlast' = RedisCall("Exec", c, <<values, ttl>>, FALSE, 0)
    /\ hist' = [hist EXCEPT !.args[c] = <<values, ttl>>]
    /\ UNCHANGED <<redisConfig, remote>>
    /\ UNCHANGED memoryVars
    /\ UNCHANGED lockVars

\* the server applies the next command of c's pipeline; after the last one
\* pipe.Exec returns nil, and so does the call
ServerApply(c) ==
    /\ c \in InFlight
    /\ remote' = Apply(remote, Head(pipes[c].cmds))
    /\ hist' = [succeeded |-> IF Len(pipes[c].cmds) = 1 THEN hist.succeeded + 1 ELSE hist.succeeded,
                args |-> IF Len(pipes[c].cmds) = 1 THEN [hist.args EXCEPT ![c] = << >>] ELSE hist.args,
                stored |-> IF Head(pipes[c].cmds).cmd = "SET"
                           THEN [client |-> c, values |-> hist.args[c][1]]
                           ELSE hist.stored,
                seen |-> hist.seen]
    /\ IF Len(pipes[c].cmds) = 1
       THEN /\ pipes' = [pipes EXCEPT ![c] = Pipe(<< >>, 0)]
            /\ rlast' = RedisCall("Set", c, << >>, FALSE, pipes[c].applied + 1)
       ELSE /\ pipes' = [pipes EXCEPT ![c] = Pipe(Tail(pipes[c].cmds), pipes[c].applied + 1)]
            /\ rlast' = RedisCall("Apply", c, << >>, FALSE, pipes[c].applied + 1)
    /\ UNCHANGED redisConfig
    /\ UNCHANGED memoryVars
    /\ UNCHANGED lockVars

\* the connection or the context of c's call ends: the commands not applied
\* yet are lost, pipe.Exec returns an error, and so does the call
ExecFails(c) ==
    /\ c \in InFlight
    /\ pipes' = [pipes EXCEPT ![c] = Pipe(<< >>, 0)]
    /\ rlast' = RedisCall("Set", c, << >>, TRUE, pipes[c].applied)
    /\ hist' = [hist EXCEPT !.args[c] = << >>]
    /\ UNCHANGED <<redisConfig, remote>>
    /\ UNCHANGED memoryVars
    /\ UNCHANGED lockVars

\* client c, with no call in progress, reads the dataset and the version (Get
\* and GetVersion, with nothing applied in between)
Observe(c) ==
    /\ redisConfig.client
    /\ c \notin InFlight
    /\ rlast' = RedisCall("Observe", c, << >>, FALSE, <<GetValues(remote), GetVersionValue(remote)>>)
    /\ hist' = hist
    /\ UNCHANGED <<redisConfig, remote, pipes>>
    /\ UNCHANGED memoryVars
    /\ UNCHANGED lockVars

\* two RedisCache with a client and a configured TTL, on a server that holds
\* neither key
InitPipeline ==
    /\ config = PlainConfig
    /\ data = EmptyMap
    /\ order = << >>
    /\ indexes = EmptyMap
    /\ indexFns = EmptyMap
    /\ hash = EmptyStr
    /\ loaded = << >>
    /\ last = NoCall
    /\ replaced = FALSE
    /\ redisConfig = [client |-> TRUE, TTL |-> 2, MaxValueBytes |-> 0]
    /\ remote = NoKeys
    /\ pipes = NoPipes
    /\ rlast = NoRedisCall
    /\ hist = NoHist
    /\ NoGoroutines

NextPipeline ==
    \/ \E c \in Clients, values \in PipelineInputs, ttl \in PipelineTTLs : StartSet(c, values, ttl)
    \/ \E c \in Clients : ServerApply(c)
    \/ \E c \in Clients : ExecFails(c)
    \/ \E c \in Clients : Observe(c)

SpecPipeline == InitPipeline /\ [][NextPipeline]_vars

----------------------------------------------------------------------------
(* C16 *)

\* C16: the update of Set/SetWithTTL is one all-or-nothing batch.  No client
\* reads the dataset and the version while the server has applied a part of
\* another client's pipeline, and a Set or SetWithTTL that returns an error has
\* had none of its commands applied.
C16_AsStated ==
    /\ rlast.op = "Observe" =>
           \A c \in Clients \ {rlast.client} : pipes[c].applied = 0
    /\ (rlast.op = "Set" /\ rlast.err) => rlast.ret = 0

----------------------------------------------------------------------------
(* HybridCache *)

\* c.memory.Set(values), when it does not panic
DoMemorySet(values) ==
    /\ \E st \in {SetResult(config, indexFns, values)} :
           /\ data' = st.data
           /\ order' = st.order
           /\ indexes' = st.indexes
           /\ hash' = calculateHash(config, st.data, st.order)
    /\ loaded' = values
    /\ last' = Call("Set", "", Len(values), FALSE)
    /\ replaced' = (data # EmptyMap)
    /\ UNCHANGED <<config, indexFns>>

\* c.memory.Set(values), when it panics
DoMemorySetPanic(values) ==
    /\ last' = Call("Set", "", Len(values), TRUE)
    /\ replaced' = FALSE
    /\ UNCHANGED <<config, data, order, indexes, indexFns, hash, loaded>>

\* HybridCache.AddIndex(name, keyFunc)
HybridAddIndex(name, keyFunc) ==
    /\ indexFns' = Put(indexFns, name, keyFunc)
    /\ \E idx \in RebuiltIndexes(data, keyFunc) : indexes' = Put(indexes, name, idx)
    /\ last' = Call("AddIndex", name, 0, FALSE)
    /\ replaced' = FALSE
    /\ rlast' = RedisCall("AddIndex", "c1", <<name>>, FALSE, 0)
    /\ UNCHANGED <<config, data, order, hash, loaded>>
    /\ UNCHANGED <<redisConfig, remote, pipes>>
    /\ UNCHANGED <<lockVars, hist>>

\* HybridCache.Set(values): the memory cache, then Redis
HybridSet(values) ==
    /\ ~SetPanics(config, values)
    /\ DoMemorySet(values)
    /\ DoRedisSet("HybridSet", values, redisConfig.TTL)
    /\ UNCHANGED <<redisConfig, pipes>>
    /\ UNCHANGED <<lockVars, hist>>

\* HybridCache.Set(values) when c.memory.Set panics: c.redis.Set is not reached
HybridSetPanic(values) ==
    /\ SetPanics(config, values)
    /\ DoMemorySetPanic(values)
    /\ rlast' = RedisCall("HybridSetPanic", "c1", <<values, redisConfig.TTL>>, FALSE, 0)
    /\ UNCHANGED <<redisConfig, remote, pipes>>
    /\ UNCHANGED <<lockVars, hist>>

\* HybridCache.LoadFromRedis when c.redis.Get returns an error, going on to
\* c.memory.Set with the empty slice Get returned
LoadFailed_SetsEmpty ==
    /\ rlast' = RedisCall("LoadFromRedis", "c1", <<"replied">>, TRUE, 0)
    /\ DoMemorySet(<< >>)

\* HybridCache.LoadFromRedis when c.redis.Get returns an error for what the
\* server replied

LoadFailed ==
    /\ rlast' = RedisCall("LoadFromRedis", "c1", <<"replied">>, TRUE, 0)
    /\ UNCHANGED memoryVars

\* HybridCache.LoadFromRedis when c.redis.Get returns an error without a reply
\* of the server: no client, or the command failed
LoadUnreachable ==
    /\ rlast' = RedisCall("LoadFromRedis", "c1", <<"failed">>, TRUE, 0)
    /\ UNCHANGED memoryVars

\* HybridCache.LoadFromRedis when c.redis.Get returns values
LoadRead(values) ==
    IF SetPanics(config, values)
    THEN /\ DoMemorySetPanic(values)
         /\ rlast' = RedisCall("LoadFromRedisPanic", "c1", <<"replied">>, FALSE, Len(values))
    ELSE /\ DoMemorySet(values)
         /\ rlast' = RedisCall("LoadFromRedis", "c1", <<"replied">>, FALSE, Len(values))

\* HybridCache.LoadFromRedis
LoadFromRedis ==
    /\ IF ~redisConfig.client THEN LoadUnreachable
       ELSE \E failed \in BOOLEAN :
                LET r == GetResult(redisConfig, remote)
                IN  IF failed THEN LoadUnreachable
                    ELSE IF r.err THEN LoadFailed
                    ELSE LoadRead(r.ret)
    /\ UNCHANGED <<redisConfig, remote, pipes>>
    /\ UNCHANGED <<lockVars, hist>>

\* HybridCache.SyncToRedis
SyncToRedis ==
    /\ DoRedisSet("SyncToRedis", GetAll, redisConfig.TTL)
    /\ UNCHANGED <<redisConfig, pipes>>
    /\ UNCHANGED memoryVars
    /\ UNCHANGED <<lockVars, hist>>

\* the configurations of the MemoryCache of a HybridCache
HybridConfigs ==
    { c \in Configs : c.HashFunc = "default" /\ c.NormalizeFunc = c.ValidateFunc }

\* NewHybridCache, on a server that holds neither key
InitHybrid ==
    /\ config \in HybridConfigs
    /\ data = EmptyMap
    /\ order = << >>
    /\ indexes = EmptyMap
    /\ indexFns = EmptyMap
    /\ hash = EmptyStr
    /\ loaded = << >>
    /\ last = NoCall
    /\ replaced = FALSE
    /\ redisConfig \in { c \in RedisConfigs : c.TTL > 0 }
    /\ remote = NoKeys
    /\ pipes = NoPipes
    /\ rlast = NoRedisCall
    /\ hist = NoHist
    /\ NoGoroutines

\* the calls on a HybridCache, and Set and Clear on the RedisCache its Redis()
\* hands out
NextHybrid ==
    \/ \E name \in {"email"}, keyFunc \in KeyFuncs : HybridAddIndex(name, keyFunc)
    \/ \E values \in RemoteInputs : HybridSet(values)
    \/ \E values \in RemoteInputs : HybridSetPanic(values)
    \/ LoadFromRedis
    \/ SyncToRedis
    \/ \E values \in RemoteInputs : RedisSet(values)
    \/ RedisClear

SpecHybrid == InitHybrid /\ [][NextHybrid]_vars

----------------------------------------------------------------------------
(* C18 *)

\* the memory cache holds what Set(values) alone leaves: dataset, order,
\* every registered index and the hash
MemoryHolds(values) ==
    LET alone == SetAlone(values)
    IN  /\ data = alone.data
        /\ order = alone.order
        /\ indexes = alone.indexes
        /\ hash = calculateHash(config, alone.data, alone.order)

\* C18 without its claim about the remote store: a HybridCache.Set(vs) whose
\* remote write fails returns an error with the memory cache already holding
\* the accepted subset of vs (one value per primary key, as Set stores it).
C18_MemoryAhead ==
    (rlast.op = "HybridSet" /\ rlast.err) =>
        /\ AfterSet
        /\ loaded = rlast.arg[1]
        /\ MemoryHolds(rlast.arg[1])
        /\ LET keys == FirstOccurrences(AcceptedValues)
           IN  GetAll = [i \in 1..Len(keys) |-> LastAccepted(keys[i])]

\* C18 (as stated): when the remote write of a HybridCache.Set(vs) fails, the
\* call returns an error, the memory cache holds the accepted subset of vs
\* with indexes and hash rebuilt, and the remote store holds what it held
\* before.
C18_AsStated ==
    [][ (rlast'.op = "HybridSet" /\ rlast'.err) =>
            /\ loaded' = rlast'.arg[1]
            /\ MemoryHolds(rlast.arg[1])'
            /\ remote' = remote
      ]_vars

----------------------------------------------------------------------------
(* C19 *)

\* (A LoadFromRedis whose c.memory.Set panics returns neither nil nor an error;
\* C19 says nothing of it.)
\* C19: a LoadFromRedis that returns nil has called Set on the memory cache
\* with the dataset read from the remote store, so that the dataset, the order,
\* every registered index and the hash are those of that Set; a LoadFromRedis
\* that returns an error leaves the dataset, the order, the indexes and the
\* hash of the memory cache as they were.
C19_LoadFromRedis ==
    [][ /\ (rlast'.op = "LoadFromRedis" /\ ~rlast'.err) =>
               /\ last' = Call("Set", "", Len(GetValues(remote)), FALSE)
               /\ data' = SetAlone(GetValues(remote)).data
               /\ order' = SetAlone(GetValues(remote)).order
               /\ indexes' = SetAlone(GetValues(remote)).indexes
               /\ hash' = calculateHash(config, data', order')
               /\ indexFns' = indexFns
        /\ (rlast'.op = "LoadFromRedis" /\ rlast'.err) => cacheState' = cacheState
      ]_vars

\* a LoadFromRedis that failed on a working client, with two values and an
\* index in the memory cache and another dataset in the remote store
C19_Witness ==
    /\ rlast.op = "LoadFromRedis"
    /\ rlast.err
    /\ redisConfig.client
    /\ CacheLen = 2
    /\ HasIndex("email")
    /\ GetByIndex("email", <<"a">>).found
    /\ GetValues(remote) = << TestUser(<<"1">>, <<"a">>) >>

----------------------------------------------------------------------------
(* C20 *)

----------------------------------------------------------------------------
(* C21 *)

\* the payload of a dataset is above the configured maximum of Get
Oversize(values) ==
    /\ redisConfig.MaxValueBytes > 0
    /\ Len(jsonMarshal(values)) > redisConfig.MaxValueBytes

\* a Get right after a Set or SetWithTTL that returned nil, answered by the
\* server
GetAfterSet == AfterRedisSet /\ rlast'.op = "Get" /\ rlast'.arg = <<"replied">>

\* C21 (as stated): a Set or SetWithTTL(vs) that returned nil, followed by a
\* Get the server answers, with no expiry and no other call in between: Get
\* returns no error and the sequence vs as the caller passed it, every value
\* unchanged and in the same order, duplicates and values the memory cache
\* would reject or normalize included.
C21_AsStated ==
    [][ GetAfterSet => (~rlast'.err /\ rlast'.ret = rlast.arg[1]) ]_vars

\* C21 (amended): as above, unless a maximum payload size is configured and
\* the payload of vs exceeds it: then Get returns an error and no dataset.
\* In every other case Get returns no error and the sequence vs verbatim.
C21_RoundTrip ==
    [][ GetAfterSet =>
            IF Oversize(rlast.arg[1]) THEN rlast'.err
            ELSE ~rlast'.err /\ rlast'.ret = rlast.arg[1] ]_vars

\* a Get that returned two values with the same primary key, neither of them
\* normalized
C21_Witness ==
    /\ rlast.op = "Get"
    /\ ~rlast.err
    /\ rlast.ret = << TestUser(<<"2">>, <<" ", "A">>), TestUser(<<"2">>, <<" ">>) >>
    /\ GetValues(remote) = rlast.ret
    /\ remote.key.ttl # NoExpiry

----------------------------------------------------------------------------
(* C22 *)

\* d units of time or more have passed since a Set or SetWithTTL that returned
\* nil and stored its dataset for d > 0 units, and no call was made since
PastExpiry ==
    /\ rlast.op = "Tick"
    /\ rlast.arg # << >>
    /\ ExpectedTTL(rlast.arg[2]) <= rlast.ret

\* C22: after a SetWithTTL(vs, d) with d > 0 that returned nil (or a Set, with
\* d the time to live it uses) and no call since, once d units of time have
\* passed the data key is gone: an Exists the server answers returns false
\* without error, and a Get the server answers returns an empty dataset
\* without error.
C22_Expiry ==
    [][ PastExpiry =>
            /\ ~ExistsValue(remote)
            /\ (rlast'.op = "Exists" /\ rlast'.arg = <<"replied">>) =>
                   (~rlast'.err /\ rlast'.ret = FALSE)
            /\ (rlast'.op = "Get" /\ rlast'.arg = <<"replied">>) =>
                   (~rlast'.err /\ rlast'.ret = << >>) ]_vars

\* one unit of time after a SetWithTTL of a dataset of two values for one
\* unit, on a RedisCache configured with another TTL
C22_Witness ==
    /\ rlast.op = "Tick"
    /\ rlast.arg # << >>
    /\ Len(rlast.arg[1]) = 2
    /\ rlast.arg[2] = 1
    /\ rlast.ret = 1
    /\ redisConfig.TTL = 2
    /\ ~remote.key.exists

----------------------------------------------------------------------------
(* C23 *)

\* the last call was a read the server answered
Answered(op) == rlast.op = op /\ rlast.arg = <<"replied">>

\* C23 (as stated): whenever the data key is absent (never set, cleared, or
\* expired), a Get the server answers returns an empty dataset and no error,
\* a GetVersion the server answers returns 0 and no error, and an Exists the
\* server answers returns false and no error.
C23_AsStated ==
    ~remote.key.exists =>
        /\ Answered("Get") => (~rlast.err /\ rlast.ret = << >>)
        /\ Answered("GetVersion") => (~rlast.err /\ rlast.ret = 0)
        /\ Answered("Exists") => (~rlast.err /\ rlast.ret = FALSE)

\* what holds of the reads: an absent key is never an error.  Get returns an
\* empty dataset and Exists false when the data key is absent, GetVersion
\* returns 0 when the version key is absent.
C23_AbsenceIsNotFailure ==
    /\ (Answered("Get") /\ ~remote.key.exists) => (~rlast.err /\ rlast.ret = << >>)
    /\ (Answered("Exists") /\ ~remote.key.exists) => (~rlast.err /\ rlast.ret = FALSE)
    /\ (Answered("GetVersion") /\ ~remote.versionKey.exists) => (~rlast.err /\ rlast.ret = 0)

----------------------------------------------------------------------------
(* C24 *)

----------------------------------------------------------------------------
(* C27 *)

\* the operations of a RedisCache
RedisOps == {"Get", "Set", "SetWithTTL", "Exists", "GetVersion", "Clear", "TTL", "Refresh"}

\* C27: every call of Get, Set, SetWithTTL, Exists, GetVersion, Clear, TTL or
\* Refresh on a RedisCache without a client returns an error, and the keys at
\* the server are after the call what they were before it.
C27_NilClient ==
    [][ (~redisConfig.client /\ rlast'.op \in RedisOps) =>
            (rlast'.err /\ remote' = remote) ]_vars

\* a SetWithTTL of two values on a RedisCache without a client
C27_Witness ==
    /\ ~redisConfig.client
    /\ rlast.op = "SetWithTTL"
    /\ Len(rlast.arg[1]) = 2
    /\ rlast.err
    /\ remote = NoKeys

----------------------------------------------------------------------------
(* C30 *)

\* the lookup keys that are empty after normalization: "" and whitespace
EmptyLookupKeys == { k \in LookupKeys : normalizeKey(k) = EmptyStr }

\* C30 (as stated): whatever was stored, for every registered index and
\* every lookup key that is empty after normalization GetByIndex returns
\* not-found, and no index has an entry under the empty key.
C30_AsStated ==
    \A name \in IndexNames :
        /\ \A k \in EmptyLookupKeys : GetByIndex(name, k) = NotFound
        /\ EmptyStr \notin DOMAIN indexes[name]

----------------------------------------------------------------------------
(* C29 *)

\* no call of a concurrent client is in progress
Quiescent == InFlight = {}

\* C29 (as stated): when the concurrent Set and SetWithTTL calls of several
\* clients have all returned, n of them with nil, on a server that held
\* neither key before (version 0), with no Clear and no expiry, GetVersion
\* reads n and the stored dataset is the one passed to the call whose SET the
\* server applied last.
C29_AsStated ==
    Quiescent =>
        /\ GetVersionValue(remote) = hist.succeeded
        /\ GetValues(remote) = hist.stored.values

\* what holds of concurrent writers: the version is at least the number of
\* calls that returned nil, and the stored dataset is always the one passed
\* to the call whose SET the server applied last, whether that call returned
\* nil, an error, or has not returned yet.
C29_LastWriterWins ==
    /\ Quiescent => GetVersionValue(remote) >= hist.succeeded
    /\ GetValues(remote) = hist.stored.values

----------------------------------------------------------------------------
(* MemoryCache under its lock: goroutines call it concurrently, every
   statement of a call is a step of its own, and sync.RWMutex decides who
   goes on *)

\* the slices the goroutines pass to Set
LockInputs ==
    { << TestUser(<<"1">>, <<"a">>) >>,
      << TestUser(<<"2">>, <<" ">>), TestUser(<<"1">>, <<"a">>) >> }

\* the calls that take the write lock
WriteCalls ==
    { [op |-> "Set", arg |-> values] : values \in LockInputs }
        \cup { [op |-> "Clear", arg |-> << >>],
               [op |-> "AddIndex", arg |-> <<"email", "Email">>],
               [op |-> "RemoveIndex", arg |-> <<"email">>] }

\* what the callback of an Iterate does: return true or false (arg collects
\* the values it was called with and what it returned for each), or call a
\* mutating operation of the same cache, or call a read of the same cache and
\* return true
PlainCallback == [op |-> "return", arg |-> << >>]

ReadCallback == [op |-> "Read", arg |-> << >>]

Callbacks == {PlainCallback, ReadCallback} \cup WriteCalls

\* the fields of the cache as they are
Cur == Snapshot(data, order, indexes, indexFns, hash)

\* the number of steps of a call under the write lock
NumSteps(op, arg) == IF op = "Set" THEN Len(arg) + 2 ELSE 2

\* the fields after step k of a call under the write lock.
\* Set: the reset of data, order and indexes, one iteration of the loop for
\* each value, the hash.  Clear: the reset, the hash.  AddIndex: the
\* registration with an empty index, the rebuild.  RemoveIndex: the two deletes.
StepResults(op, arg, k, s) ==
    CASE op = "Set" ->
           IF k = 1
           THEN { [s EXCEPT !.data = EmptyMap, !.order = << >>,
                            !.indexes = [name \in DOMAIN s.indexes |-> EmptyMap]] }
           ELSE IF k <= Len(arg) + 1
           THEN LET st == SetValue(config, s.indexFns,
                                   [data |-> s.data, order |-> s.order, indexes |-> s.indexes],
                                   arg[k - 1])
                IN  { [s EXCEPT !.data = st.data, !.order = st.order, !.indexes = st.indexes] }
           ELSE { [s EXCEPT !.hash = calculateHash(config, s.data, s.order)] }
      [] op = "Clear" ->
           IF k = 1
           THEN { [s EXCEPT !.data = EmptyMap, !.order = << >>,
                            !.indexes = [name \in DOMAIN s.indexes |-> EmptyMap]] }
           ELSE { [s EXCEPT !.hash = EmptyStr] }
      [] op = "AddIndex" ->
           IF k = 1
           THEN { [s EXCEPT !.indexFns = Put(s.indexFns, arg[1], arg[2]),
                            !.indexes = Put(s.indexes, arg[1], EmptyMap)] }
           ELSE { [s EXCEPT !.indexes = Put(s.indexes, arg[1], idx)] :
                      idx \in RebuiltIndexes(s.data, arg[2]) }
      [] op = "RemoveIndex" ->
           IF k = 1
           THEN { [s EXCEPT !.indexFns = Delete(s.indexFns, arg[1])] }
           ELSE { [s EXCEPT !.indexes = Delete(s.indexes, arg[1])] }

\* where a goroutine goes on when its call returns: nowhere, or in the
\* Iterate whose callback made the call
Return(r) == IF r.outer = << >> THEN Idle ELSE [r.outer[1] EXCEPT !.i = @ + 1]

\* where a goroutine goes on with the read lock
Reading(r) == [r EXCEPT !.pc = IF r.op = "Iterate" THEN "iterate" ELSE "read"]

\* goroutine g calls Set, Clear, AddIndex or RemoveIndex; Set panics before
\* it takes the lock when it has values and no PrimaryKeyFunc
CallWrite(g, call) ==
    /\ goroutines[g].pc = "idle"
    /\ goroutines' = [goroutines EXCEPT ![g] =
           IF call.op = "Set" /\ SetPanics(config, call.arg) THEN Idle
           ELSE Goroutine("Lock", call.op, call.arg, 0, << >>)]
    /\ UNCHANGED <<mu, committed, hist>>
    /\ UNCHANGED memoryVars
    /\ UNCHANGED redisVars

\* goroutine g calls a read: Get, GetByIndex, GetAll, Len, GetHash, HasIndex
\* (each returns a function of the fields it finds under the read lock)
CallRead(g) ==
    /\ goroutines[g].pc = "idle"
    /\ goroutines' = [goroutines EXCEPT ![g] = Goroutine("RLock", "Read", << >>, 0, << >>)]
    /\ UNCHANGED <<mu, committed, hist>>
    /\ UNCHANGED memoryVars
    /\ UNCHANGED redisVars

\* goroutine g calls Iterate(fn)
CallIterate(g, fn) ==
    /\ goroutines[g].pc = "idle"
    /\ goroutines' = [goroutines EXCEPT ![g] = Goroutine("RLock", "Iterate", fn, 0, << >>)]
    /\ UNCHANGED <<mu, committed, hist>>
    /\ UNCHANGED memoryVars
    /\ UNCHANGED redisVars

\* c.mu.Lock(), first half: g takes the writer mutex and announces itself, so
\* that RLock blocks from now on
Lock(g) ==
    /\ goroutines[g].pc = "Lock"
    /\ mu.w = "none"
    /\ mu' = [mu EXCEPT !.w = g]
    /\ goroutines' = [goroutines EXCEPT ![g].pc = "drain"]
    /\ UNCHANGED <<committed, hist>>
    /\ UNCHANGED memoryVars
    /\ UNCHANGED redisVars

\* c.mu.Lock() of a lock a goroutine may take again while it holds it
Drain_Reentrant(g) ==
    /\ goroutines[g].pc = "drain"
    /\ \A h \in Goroutines \ {g} : mu.readers[h] = 0
    /\ goroutines' = [goroutines EXCEPT ![g].pc = "write"]
    /\ UNCHANGED <<mu, committed, hist>>
    /\ UNCHANGED memoryVars
    /\ UNCHANGED redisVars

\* c.mu.Lock(), second half: g waits until every read lock is released

Drain(g) ==
    /\ goroutines[g].pc = "drain"
    /\ \A h \in Goroutines : mu.readers[h] = 0
    /\ goroutines' = [goroutines EXCEPT ![g].pc = "write"]
    /\ UNCHANGED <<mu, committed, hist>>
    /\ UNCHANGED memoryVars
    /\ UNCHANGED redisVars

\* the next step of Set, Clear, AddIndex or RemoveIndex under the write lock
WriteStep(g) ==
    /\ goroutines[g].pc = "write"
    /\ goroutines[g].i < NumSteps(goroutines[g].op, goroutines[g].arg)
    /\ \E s \in StepResults(goroutines[g].op, goroutines[g].arg, goroutines[g].i + 1, Cur) :
           /\ data' = s.data
           /\ order' = s.order
           /\ indexes' = s.indexes
           /\ indexFns' = s.indexFns
           /\ hash' = s.hash
    /\ goroutines' = [goroutines EXCEPT ![g].i = @ + 1]
    /\ UNCHANGED <<mu, committed, hist>>
    /\ UNCHANGED <<config, loaded, last, replaced>>
    /\ UNCHANGED redisVars

\* a call that returns without c.mu.Unlock()
Unlock_Missing(g) ==
    /\ goroutines[g].pc = "write"
    /\ goroutines[g].i = NumSteps(goroutines[g].op, goroutines[g].arg)
    /\ goroutines' = [goroutines EXCEPT ![g] = Return(goroutines[g])]
    /\ committed' = Cur
    /\ UNCHANGED <<mu, hist>>
    /\ UNCHANGED memoryVars
    /\ UNCHANGED redisVars

\* the deferred c.mu.Unlock(): the goroutines blocked in RLock get the read
\* lock, then the writer mutex is free; the call returns

Unlock(g) ==
    /\ goroutines[g].pc = "write"
    /\ goroutines[g].i = NumSteps(goroutines[g].op, goroutines[g].arg)
    /\ mu' = RWMutex("none",
                     [h \in Goroutines |-> IF h \in mu.rwait THEN mu.readers[h] + 1 ELSE mu.readers[h]],
                     {})
    /\ goroutines' = [h \in Goroutines |->
                         IF h = g THEN Return(goroutines[g])
                         ELSE IF h \in mu.rwait THEN Reading(goroutines[h])
                         ELSE goroutines[h]]
    /\ committed' = Cur
    /\ UNCHANGED hist
    /\ UNCHANGED memoryVars
    /\ UNCHANGED redisVars

\* c.mu.RLock() that takes the read lock whatever a writer does
RLock_NoWait(g) ==
    /\ goroutines[g].pc = "RLock"
    /\ mu' = [mu EXCEPT !.readers[g] = @ + 1]
    /\ goroutines' = [goroutines EXCEPT ![g] = Reading(goroutines[g])]
    /\ UNCHANGED <<committed, hist>>
    /\ UNCHANGED memoryVars
    /\ UNCHANGED redisVars

\* c.mu.RLock(): g takes a read lock, or blocks when a writer holds the writer
\* mutex (it waits for the readers to leave, or writes)

RLock(g) ==
    /\ goroutines[g].pc = "RLock"
    /\ IF mu.w = "none"
       THEN /\ mu' = [mu EXCEPT !.readers[g] = @ + 1]
            /\ goroutines' = [goroutines EXCEPT ![g] = Reading(goroutines[g])]
       ELSE /\ mu' = [mu EXCEPT !.rwait = @ \cup {g}]
            /\ goroutines' = [goroutines EXCEPT ![g].pc = "rwait"]
    /\ UNCHANGED <<committed, hist>>
    /\ UNCHANGED memoryVars
    /\ UNCHANGED redisVars

\* the body of a read: what it finds in the fields
ReadStep(g) ==
    /\ goroutines[g].pc = "read"
    /\ goroutines' = [goroutines EXCEPT ![g].pc = "RUnlock", ![g].arg = Cur]
    /\ UNCHANGED <<mu, committed, hist>>
    /\ UNCHANGED memoryVars
    /\ UNCHANGED redisVars

\* the loop of Iterate going on after the callback returned false
IterateStep_IgnoresFalse(g) ==
    /\ goroutines[g].pc = "iterate"
    /\ IF goroutines[g].i < Len(ValuesInOrder(data, order))
       THEN IF goroutines[g].arg.op = "return"
            THEN \E continue \in BOOLEAN :
                     goroutines' = [goroutines EXCEPT ![g] =
                         [@ EXCEPT !.i = @ + 1,
                                   !.arg.arg = Append(@, <<ValuesInOrder(data, order)[goroutines[g].i + 1], continue>>)]]
            ELSE goroutines' = [goroutines EXCEPT ![g] =
                     Goroutine(IF goroutines[g].arg.op = "Read" THEN "RLock" ELSE "Lock",
                               goroutines[g].arg.op, goroutines[g].arg.arg, 0, <<goroutines[g]>>)]
       ELSE goroutines' = [goroutines EXCEPT ![g].pc = "RUnlock"]
    /\ UNCHANGED <<mu, committed, hist>>
    /\ UNCHANGED memoryVars
    /\ UNCHANGED redisVars

\* the loop of Iterate: the callback is called with the next value (i counts
\* the values it was called with) and returns true or false, or calls an
\* operation of the cache; after the last value, or when the callback returned
\* false, Iterate is about to return

IterateStep(g) ==
    /\ goroutines[g].pc = "iterate"
    /\ IF goroutines[g].i < Len(ValuesInOrder(data, order))
       THEN IF goroutines[g].arg.op = "return"
            THEN \E continue \in BOOLEAN :
                     goroutines' = [goroutines EXCEPT ![g] =
                         [@ EXCEPT !.i = @ + 1,
                                   !.arg.arg = Append(@, <<ValuesInOrder(data, order)[goroutines[g].i + 1], continue>>),
                                   !.pc = IF continue THEN "iterate" ELSE "RUnlock"]]
            ELSE goroutines' = [goroutines EXCEPT ![g] =
                     Goroutine(IF goroutines[g].arg.op = "Read" THEN "RLock" ELSE "Lock",
                               goroutines[g].arg.op, goroutines[g].arg.arg, 0, <<goroutines[g]>>)]
       ELSE goroutines' = [goroutines EXCEPT ![g].pc = "RUnlock"]
    /\ UNCHANGED <<mu, committed, hist>>
    /\ UNCHANGED memoryVars
    /\ UNCHANGED redisVars

\* c.mu.RUnlock() and the return of the call
RUnlock(g) ==
    /\ goroutines[g].pc = "RUnlock"
    /\ mu' = [mu EXCEPT !.readers[g] = @ - 1]
    /\ goroutines' = [goroutines EXCEPT ![g] = Return(goroutines[g])]
    /\ UNCHANGED <<committed, hist>>
    /\ UNCHANGED memoryVars
    /\ UNCHANGED redisVars

\* a MemoryCache with a PrimaryKeyFunc, as TestMemoryCache_ConcurrentAccess
\* builds it, before any call
InitLock ==
    /\ config = PlainConfig
    /\ data = EmptyMap
    /\ order = << >>
    /\ indexes = EmptyMap
    /\ indexFns = EmptyMap
    /\ hash = EmptyStr
    /\ loaded = << >>
    /\ last = NoCall
    /\ replaced = FALSE
    /\ redisConfig = DefaultRedisConfig
    /\ remote = NoKeys
    /\ pipes = NoPipes
    /\ rlast = NoRedisCall
    /\ hist = NoHist
    /\ NoGoroutines

\* the steps of the calls in progress
Proceed(g) ==
    \/ Lock(g)
    \/ Drain(g)
    \/ WriteStep(g)
    \/ Unlock(g)
    \/ RLock(g)
    \/ ReadStep(g)
    \/ IterateStep(g)
    \/ RUnlock(g)

NextLock ==
    \/ \E g \in Goroutines, call \in WriteCalls : CallWrite(g, call)
    \/ \E g \in Goroutines : CallRead(g)
    \/ \E g \in Goroutines, fn \in Callbacks : CallIterate(g, fn)
    \/ \E g \in Goroutines : Proceed(g)

SpecLock == InitLock /\ [][NextLock]_vars

\* the calls whose callbacks return and do not call the cache
NextFair ==
    \/ \E g \in Goroutines, call \in WriteCalls : CallWrite(g, call)
    \/ \E g \in Goroutines : CallRead(g)
    \/ \E g \in Goroutines : CallIterate(g, PlainCallback)
    \/ \E g \in Goroutines : Proceed(g)

\* fair scheduling: a goroutine that can take its next step takes it, and a
\* goroutine that waits for the writer mutex gets it when it is free again and
\* again (sync.Mutex hands the mutex to a waiter that has waited too long)
Fairness ==
    \A g \in Goroutines :
        /\ WF_vars(Drain(g) \/ WriteStep(g) \/ Unlock(g) \/ RLock(g) \/ ReadStep(g)
                       \/ IterateStep(g) \/ RUnlock(g))
        /\ SF_vars(Lock(g))

SpecFair == InitLock /\ [][NextFair]_vars /\ Fairness

----------------------------------------------------------------------------
(* C25 *)

\* what a whole Set, Clear, AddIndex or RemoveIndex makes of the fields s when
\* nothing else runs: the operations of the cache used by one caller
Whole(op, arg, s) ==
    CASE op = "Set" ->
           LET st == SetResult(config, s.indexFns, arg)
           IN  { Snapshot(st.data, st.order, st.indexes, s.indexFns,
                          calculateHash(config, st.data, st.order)) }
      [] op = "Clear" ->
           { Snapshot(EmptyMap, << >>, [name \in DOMAIN s.indexes |-> EmptyMap], s.indexFns, EmptyStr) }
      [] op = "AddIndex" ->
           { Snapshot(s.data, s.order, Put(s.indexes, arg[1], idx), Put(s.indexFns, arg[1], arg[2]), s.hash) :
                 idx \in RebuiltIndexes(s.data, arg[2]) }
      [] op = "RemoveIndex" ->
           { Snapshot(s.data, s.order, Delete(s.indexes, arg[1]), Delete(s.indexFns, arg[1]), s.hash) }

\* goroutine g has read the fields and is about to return
HasRead(g) == goroutines[g].pc = "RUnlock" /\ goroutines[g].op = "Read"

\* C25: concurrent calls serialize entirely.  Under every interleaving of the
\* steps of concurrent Set, Clear, AddIndex, RemoveIndex, reads and Iterate,
\* what a read finds (mapping, order, every index, the index functions and the
\* hash together) is what the last writer that unlocked left, and what a
\* writer leaves when it unlocks is the result of its whole operation applied
\* to what the writer before it left: never a part of an operation, never a
\* mixture of two.
C25_Serialized ==
    [][ /\ \A g \in Goroutines : HasRead(g)' => goroutines'[g].arg = committed'
        /\ \A g \in Goroutines :
               (goroutines[g].pc = "write" /\ goroutines'[g].pc # "write") =>
                   committed' \in Whole(goroutines[g].op, goroutines[g].arg, committed)
      ]_vars

\* a read has found two values and their index while a writer that holds the
\* writer mutex waits for it to release the read lock
C25_Witness ==
    /\ HasRead("g1")
    /\ Len(goroutines["g1"].arg.order) = 2
    /\ "email" \in DOMAIN goroutines["g1"].arg.indexes
    /\ goroutines["g1"].arg.hash # EmptyStr
    /\ goroutines["g2"].pc = "drain"
    /\ goroutines["g2"].op = "Set"
    /\ mu.w = "g2"

----------------------------------------------------------------------------
(* C26 *)

\* C26: with callbacks that return and do not call the cache, under fair
\* scheduling every call a goroutine has started (Set, Clear, AddIndex,
\* RemoveIndex, a read, Iterate) eventually returns, however the calls of the
\* other goroutines interleave with it; and when every call has returned the
\* lock is free, no read lock and no writer mutex held, no goroutine blocked.
C26_NoBlocking ==
    /\ \A g \in Goroutines : (goroutines[g].pc # "idle") ~> (goroutines[g].pc = "idle")
    /\ []((\A g \in Goroutines : goroutines[g].pc = "idle") => mu = Unlocked)

\* a read blocked in RLock by a writer in the middle of a Set, the other
\* goroutine
C26_Witness ==
    /\ goroutines["g1"].pc = "rwait"
    /\ "g1" \in mu.rwait
    /\ goroutines["g2"].pc = "write"
    /\ goroutines["g2"].op = "Set"
    /\ goroutines["g2"].i = 1

----------------------------------------------------------------------------
(* C28 *)

\* goroutine g is in a call made by the callback of its Iterate
InCallback(g) == goroutines[g].outer # << >>

\* C28: a mutating operation (Set, Clear, AddIndex, RemoveIndex) called by the
\* callback of an Iterate on the same cache never returns.  From the call on,
\* the goroutine holds the read lock of Iterate and stays in c.mu.Lock(),
\* waiting for the writer mutex or for the read locks to be released.
C28_NestedWriteDeadlocks ==
    [][ \A g \in Goroutines :
            (InCallback(g) /\ goroutines[g].op # "Read") =>
                /\ InCallback(g)'
                /\ goroutines'[g].pc \in {"Lock", "drain"}
                /\ mu'.readers[g] > 0
      ]_vars

\* the callback of an Iterate has called Set, which holds the writer mutex and
\* waits for the read lock of the Iterate; the other goroutine is blocked in
\* a read
C28_Witness ==
    /\ InCallback("g1")
    /\ goroutines["g1"].op = "Set"
    /\ goroutines["g1"].pc = "drain"
    /\ goroutines["g1"].outer[1].op = "Iterate"
    /\ mu.w = "g1"
    /\ mu.readers["g1"] = 1
    /\ goroutines["g2"].pc = "rwait"

----------------------------------------------------------------------------
(* C40 *)

\* the primary keys in the order sequence
OrderKeys == { order[i] : i \in 1..Len(order) }

\* C40: in every state the MemoryCache reaches, the order sequence has no
\* primary key twice and its keys are exactly the keys of the primary
\* mapping; so Len() is the length of GetAll(), and Get(k) finds a value
\* exactly for the primary keys of the values GetAll() returns.
C40_MappingOrder ==
    /\ \A i, j \in 1..Len(order) : order[i] = order[j] => i = j
    /\ OrderKeys = DOMAIN data
    /\ CacheLen = Len(GetAll)
    /\ \A k \in LookupKeys \cup DOMAIN data \cup OrderKeys :
           Get(k).found <=> \E i \in 1..Len(GetAll) : PrimaryKeyFunc(GetAll[i]) = k

\* a Set of two values with the same primary key left one key in the order
\* sequence, with an index registered
C40_Witness ==
    /\ AfterSet
    /\ Len(loaded) = 2
    /\ order = << <<"2">> >>
    /\ DOMAIN data = { <<"2">> }
    /\ HasIndex("email")

----------------------------------------------------------------------------
(* C39 *)

\* C39 (as stated): right after a HybridCache.Set(vs) that returned nil, the
\* dataset stored at the server (what the remote Get decodes) is the dataset
\* GetAll() returns from the memory cache, whatever vs holds: values the
\* validator rejects, values without a primary key, several values with the
\* same primary key, values the normalizer changes.
C39_AsStated ==
    (rlast.op = "HybridSet" /\ ~rlast.err) => GetValues(remote) = GetAll

\* what holds after a HybridCache.Set(vs) that returned nil: the server holds
\* vs as the caller passed it, and the memory cache what its Set makes of vs.
C39_RawRemote ==
    (rlast.op = "HybridSet" /\ ~rlast.err) =>
        /\ GetValues(remote) = rlast.arg[1]
        /\ GetAll = ValuesInOrder(SetAlone(rlast.arg[1]).data, SetAlone(rlast.arg[1]).order)

----------------------------------------------------------------------------
(* C38 *)

\* a LoadFromRedis the server answered, on a server without the data key
LoadOfAbsent ==
    /\ ~remote.key.exists
    /\ rlast'.op \in {"LoadFromRedis", "LoadFromRedisPanic"}
    /\ rlast'.arg = <<"replied">>

\* C38: when the data key does not exist (never set, cleared, expired), a
\* LoadFromRedis the server answers returns no error and leaves the memory
\* cache with the empty dataset, whatever it held: GetAll is empty, Len is 0,
\* no primary key is found, and every registered index is still registered
\* and has no entry.
C38_LoadOfAbsent ==
    [][ LoadOfAbsent =>
            /\ rlast'.op = "LoadFromRedis"
            /\ ~rlast'.err
            /\ GetAll' = << >>
            /\ CacheLen' = 0
            /\ data' = EmptyMap
            /\ indexFns' = indexFns
            /\ indexes' = [name \in DOMAIN indexFns |-> EmptyMap]
      ]_vars

\* a LoadFromRedis that returned nil and emptied a memory cache of two values
\* with an index, on a server that does not hold the data key
C38_Witness ==
    /\ rlast.op = "LoadFromRedis"
    /\ ~rlast.err
    /\ ~remote.key.exists
    /\ last = Call("Set", "", 0, FALSE)
    /\ replaced
    /\ CacheLen = 0
    /\ HasIndex("email")
    /\ indexes["email"] = EmptyMap

----------------------------------------------------------------------------
(* C34 *)

\* a successful LoadFromRedis that directly follows a successful SyncToRedis
SyncThenLoad ==
    /\ rlast.op = "SyncToRedis"
    /\ ~rlast.err
    /\ rlast'.op = "LoadFromRedis"
    /\ ~rlast'.err

\* C34 (as stated): a successful SyncToRedis immediately followed by a
\* successful LoadFromRedis leaves the memory cache unchanged: same GetAll,
\* Len, GetByIndex results and GetHash.
C34_AsStated ==
    [][ SyncThenLoad =>
            /\ GetAll' = GetAll
            /\ CacheLen' = CacheLen
            /\ GetHash' = GetHash
            /\ \A name \in IndexNames, key \in LookupKeys :
                   GetByIndex(name, key)' = GetByIndex(name, key)
      ]_vars

\* What holds of the round trip: the dataset (GetAll, Len, Get by primary key)
\* is the same, and so is the set of registered indexes.
C34_Dataset ==
    [][ SyncThenLoad =>
            /\ GetAll' = GetAll
            /\ CacheLen' = CacheLen
            /\ data' = data
            /\ order' = order
            /\ indexFns' = indexFns
      ]_vars

----------------------------------------------------------------------------
(* C31 *)

\* C31 (as stated): in every state in which the data key exists, its
\* remaining time to live right after a Refresh that returned nil is at least
\* its remaining time to live right before, also after a SetWithTTL with a
\* ttl other than the configured one.
C31_AsStated ==
    [][ (rlast'.op = "Refresh" /\ ~rlast'.err /\ remote.key.exists) =>
            remote'.key.ttl >= remote.key.ttl
      ]_vars

\* What holds: a Refresh that returned nil sets the remaining time to live of
\* each key that exists to the effective configured TTL, whatever it was.
C31_ResetsTTL ==
    [][ (rlast'.op = "Refresh" /\ ~rlast'.err /\ remote.key.exists) =>
            /\ remote'.key.exists
            /\ remote'.key.ttl = effectiveTTL(redisConfig.TTL)
      ]_vars

----------------------------------------------------------------------------
(* C36 *)

\* C36 (as stated): after any sequence of completed Set, SetWithTTL, Refresh
\* and Clear calls of one RedisCache and the passage of time, the data key
\* exists if and only if the version key exists, the two expire at the same
\* instant when they exist, and GetVersion reads more than 0 exactly when
\* Exists reads true.
C36_AsStated ==
    /\ remote.key.exists <=> remote.versionKey.exists
    /\ (remote.key.exists /\ remote.versionKey.exists) =>
           remote.key.ttl = remote.versionKey.ttl
    /\ GetVersionValue(remote) > 0 <=> ExistsValue(remote)

----------------------------------------------------------------------------
(* RedisCache, a caller that polls the version to detect changes of the
   dataset *)

\* the caller reads GetVersion and Get, with no call in between, and the server
\* answers both; it keeps what it read for a later comparison, or compares only
Poll ==
    /\ redisConfig.client
    /\ rlast' = RedisCall("Poll", "c1", << >>, FALSE, <<GetVersionValue(remote), GetValues(remote)>>)
    /\ \E keep \in BOOLEAN :
           hist' = IF keep THEN [hist EXCEPT !.seen = <<GetVersionValue(remote), GetValues(remote)>>]
                   ELSE hist
    /\ UNCHANGED <<redisConfig, remote, pipes>>
    /\ UNCHANGED memoryVars
    /\ UNCHANGED lockVars

\* one RedisCache with a client and a configured TTL, on a server that holds
\* neither key
InitWatch ==
    /\ InitRedis
    /\ redisConfig = [client |-> TRUE, TTL |-> 2, MaxValueBytes |-> 0]

NextWatch ==
    \/ \E values \in RemoteInputs : RedisSet(values)
    \/ \E values \in RemoteInputs, ttl \in TTLArgs : RedisSetWithTTL(values, ttl)
    \/ RedisClear
    \/ RedisRefresh
    \/ Tick
    \/ Poll

SpecWatch == InitWatch /\ [][NextWatch]_vars

----------------------------------------------------------------------------
(* C35 *)

\* C35 (as stated): if GetVersion returns the same value at two instants, the
\* dataset Get returns is the same at both, under any sequence of Set,
\* SetWithTTL, Clear, Refresh and key expiry.
C35_AsStated ==
    (rlast.op = "Poll" /\ hist.seen # << >> /\ rlast.ret[1] = hist.seen[1]) =>
        rlast.ret[2] = hist.seen[2]

----------------------------------------------------------------------------
(* C32 *)

\* goroutine g is in an Iterate whose callback returns true or false
Iterating(g) ==
    /\ goroutines[g].op = "Iterate"
    /\ goroutines[g].arg.op = "return"
    /\ goroutines[g].pc \in {"iterate", "RUnlock"}

\* the callback was called with the first Len(calls) values of all, in order,
\* and returned true for each but possibly the last
IsPrefixRun(calls, all) ==
    /\ Len(calls) <= Len(all)
    /\ \A k \in 1..Len(calls) : calls[k][1] = all[k]
    /\ \A k \in 1..(Len(calls) - 1) : calls[k][2]

\* C32: Iterate calls the callback with the stored values in the order of
\* GetAll, each at most once, and stops right after the first call that
\* returns false: when it returns, the callback has been called with a prefix
\* of GetAll that ends at the value it returned false for, with all of GetAll
\* if it never returned false, and not at all on an empty cache; meanwhile the
\* fields of the cache are what the last writer left.
C32_Iterate ==
    \A g \in Goroutines :
        Iterating(g) =>
            LET calls == goroutines[g].arg.arg
            IN  /\ IsPrefixRun(calls, GetAll)
                /\ goroutines[g].i = Len(calls)
                /\ goroutines[g].pc = "iterate" => \A k \in 1..Len(calls) : calls[k][2]
                /\ goroutines[g].pc = "RUnlock" =>
                       \/ calls # << >> /\ ~calls[Len(calls)][2]
                       \/ Len(calls) = Len(GetAll) /\ \A k \in 1..Len(calls) : calls[k][2]
                /\ GetAll = << >> => calls = << >>
                /\ Cur = committed

\* an Iterate over two values is about to return after its callback returned
\* true for the first value in order and false for the second
C32_Witness ==
    /\ Iterating("g1")
    /\ goroutines["g1"].pc = "RUnlock"
    /\ Len(GetAll) = 2
    /\ goroutines["g1"].arg.arg = << <<GetAll[1], TRUE>>, <<GetAll[2], FALSE>> >>

\* an Iterate on an empty cache is about to return
C32_WitnessEmpty ==
    /\ Iterating("g2")
    /\ goroutines["g2"].pc = "RUnlock"
    /\ GetAll = << >>

----------------------------------------------------------------------------
(* C37 *)

\* goroutine g is in a read (Get, GetByIndex, Len, GetHash, GetAll) called by
\* the callback of its Iterate
InReadCallback(g) == InCallback(g) /\ goroutines[g].op = "Read"

\* C37 (as stated): a read called by the callback of an Iterate always
\* returns, also while another goroutine calls Set or Clear: the nested
\* c.mu.RLock() never waits for a writer that waits for the read lock of the
\* Iterate.
C37_AsStated ==
    \A g \in Goroutines :
        ~ /\ InReadCallback(g)
          /\ goroutines[g].pc = "rwait"
          /\ mu.w # "none"
          /\ goroutines[mu.w].pc = "drain"
          /\ mu.readers[g] > 0

----------------------------------------------------------------------------
(* HybridCache, concurrent calls of Set on one coordinator: each call runs
   c.memory.Set(values), which is one step under the write lock of the memory
   cache, and then c.redis.Set(values); nothing orders the two steps of one
   call against the steps of another *)

\* goroutine g calls HybridCache.Set(values)
CallHybridSet(g, values) ==
    /\ goroutines[g].pc = "idle"
    /\ ~SetPanics(config, values)
    /\ goroutines' = [goroutines EXCEPT ![g] = Goroutine("memory", "HybridSet", values, 0, << >>)]
    /\ UNCHANGED <<mu, committed, hist>>
    /\ UNCHANGED memoryVars
    /\ UNCHANGED redisVars

\* c.memory.Set(values) of g's call
MemoryStep(g) ==
    /\ goroutines[g].pc = "memory"
    /\ DoMemorySet(goroutines[g].arg)
    /\ goroutines' = [goroutines EXCEPT ![g].pc = "redis"]
    /\ UNCHANGED <<mu, committed, hist>>
    /\ UNCHANGED redisVars

\* return c.redis.Set(values) of g's call: the goroutine keeps what its call
\* returned until its next call
RemoteStep(g) ==
    /\ goroutines[g].pc = "redis"
    /\ DoRedisSet("HybridSet", goroutines[g].arg, redisConfig.TTL)
    /\ goroutines' = [goroutines EXCEPT ![g] =
           Goroutine("idle", IF rlast'.err THEN "HybridSetError" ELSE "HybridSetNil",
                     goroutines[g].arg, 0, << >>)]
    /\ UNCHANGED <<redisConfig, pipes>>
    /\ UNCHANGED <<mu, committed, hist>>
    /\ UNCHANGED memoryVars

\* NewHybridCache with a PrimaryKeyFunc, a client and a configured TTL, on a
\* server that holds neither key
InitRace == InitPipeline

NextRace ==
    \/ \E g \in Goroutines, values \in LockInputs : CallHybridSet(g, values)
    \/ \E g \in Goroutines : MemoryStep(g)
    \/ \E g \in Goroutines : RemoteStep(g)

SpecRace == InitRace /\ [][NextRace]_vars

----------------------------------------------------------------------------
(* C33 *)

\* every call of HybridCache.Set has returned, the last call of every
\* goroutine that made one returned nil
AllReturnedNil ==
    /\ \A g \in Goroutines : goroutines[g].pc = "idle" /\ goroutines[g].op \in {"", "HybridSetNil"}
    /\ \E g \in Goroutines : goroutines[g].op = "HybridSetNil"

\* C33 (as stated): when concurrent HybridCache.Set calls on one coordinator
\* have all returned nil, the dataset the server holds is the one submitted by
\* the call whose dataset the memory cache holds.
C33_AsStated ==
    AllReturnedNil => GetValues(remote) = loaded

====
